---- MODULE Spec2Model ----
(***************************************************************************)
(* Blackjack game engine (blackjack-core) and its service facade          *)
(* (blackjack-service), modelled for one game held by the Game Registry.  *)
(*                                                                         *)
(* The game is the record `game` with the fields of struct Game.  Engine  *)
(* methods are operators from a game to the set of results               *)
(* [g |-> game after the call, r |-> "Ok" or the error]; a method that    *)
(* draws random cards has one result per card the RNG may pick.  The      *)
(* facade methods wrap them, and each action applies one facade method;   *)
(* a call that returns an error leaves the game as it was.                 *)
(*                                                                         *)
(* Beside the game stand the invitation registry (InvitationService), the  *)
(* accounts (UserService, with password hashing and validation), the       *)
(* request RateLimiter of blackjack-api, and threads that call the facade  *)
(* concurrently.  Each part has its own specification over the same        *)
(* variables; `clock` is the instant the calls of these parts read.        *)
(***************************************************************************)
EXTENDS Integers, Sequences, FiniteSets, TLC

(* ---------------------------- bounds ---------------------------------- *)
\* users that call the game operations (ids 1..NumUsers, and 0 for a caller
\* the Identity Store does not know)
NumUsers == 2
\* players stop asking for cards once they hold MaxDraws cards between them
MaxDraws == 3
\* invitations the registry holds at most
MaxInvitations == 2
\* threads that call the facade at the same time
NumThreads == 2
\* the largest requests_per_minute a RateLimiter is configured with
MaxLimit == 3
\* seconds between two readings of the monotonic clock, and its last reading
ClockStep == 20
MaxClock == 80
\* players seated in the games whose turn order is followed
MaxSeats == 3
\* players of the games that are played to their end
PlaySeats == 2

(* ------------------------ program constants --------------------------- *)
DECK_SIZE == 52
MAX_PLAYERS == 10
DEALER_STAND_AT == 17
BUST_LIMIT == 21
ACE_BONUS == 10
CARDS_PER_SUIT == 13
RATE_WINDOW == 60
MIN_PASSWORD_LENGTH == 8

(* ------------------------------ users --------------------------------- *)
\* Identity Store: users 1..MAX_PLAYERS+1 are registered (enough to fill a
\* game and have one more user ask to join), user 0 is not.
\* Emails are unique per user (UserService::register).
EmailNames == <<"a@x.com", "b@x.com", "c@x.com", "d@x.com", "e@x.com", "f@x.com",
                "g@x.com", "h@x.com", "i@x.com", "j@x.com", "k@x.com">>
Registered == 1..(MAX_PLAYERS + 1)
UserIds == 0..NumUsers
Emails == {EmailNames[u] : u \in Registered}
Creators == {1}
\* the enrollment_timeout_seconds create_game is called with: the window
\* ends at a reading of the clock
Timeouts == {ClockStep}

\* UserService::get_user: the user's email, or none when the id is unknown
get_user(user_id) == IF user_id \in Registered THEN {EmailNames[user_id]} ELSE {}

(* ------------------------------ cards --------------------------------- *)
\* Card ids stand for the cards' UUIDs, numbered in the order Game::new
\* pushes them: suit by suit, and A,2,..,10,J,Q,K inside a suit.
CardIds == 1..DECK_SIZE
Rank(c) == ((c - 1) % CARDS_PER_SUIT) + 1
IsAce(c) == Rank(c) = 1
CardValue(c) == IF Rank(c) > 10 THEN 10 ELSE Rank(c)

\* rand::rng().random_range(0..len): the model lets the RNG pick the first
\* or the last index of the deck.
RandomIndexes(len) == {i \in 0..(len - 1) : i = 0 \/ i = len - 1}

\* faulty variant: the card is read but left in the deck
RemoveAt_Keep(s, i) == s

\* Vec::remove(index), 0-based
RemoveAt(s, i) == [k \in 1..(Len(s) - 1) |-> IF k <= i THEN s[k] ELSE s[k + 1]]

SeqToSet(s) == {s[k] : k \in 1..Len(s)}

(* ------------------------------ Player -------------------------------- *)
EmptyAceValues == [c \in {} |-> FALSE]

Player_new(email) ==
    [email |-> email, points |-> 0, cards_history |-> <<>>,
     ace_values |-> EmptyAceValues, busted |-> FALSE, state |-> "Active"]

\* HashMap::insert
MapInsert(m, k, v) == [x \in (DOMAIN m) \cup {k} |-> IF x = k THEN v ELSE m[x]]
\* HashMap::remove
MapRemove(m, k) == [x \in (DOMAIN m) \ {k} |-> m[x]]

RECURSIVE SumPoints(_, _, _)
SumPoints(cards, ace_values, k) ==
    IF k > Len(cards) THEN 0
    ELSE LET c == cards[k]
             extra == IF IsAce(c) /\ c \in DOMAIN ace_values /\ ace_values[c]
                      THEN ACE_BONUS ELSE 0
         IN  CardValue(c) + extra + SumPoints(cards, ace_values, k + 1)

\* faulty variant: busted is set but the state is left as it was
recalculate_points_NoState(p) ==
    LET pts == SumPoints(p.cards_history, p.ace_values, 1)
    IN  [p EXCEPT !.points = pts, !.busted = pts > BUST_LIMIT]

recalculate_points(p) ==
    LET pts == SumPoints(p.cards_history, p.ace_values, 1)
        b == pts > BUST_LIMIT
    IN  [p EXCEPT !.points = pts, !.busted = b,
                  !.state = IF b THEN "Busted" ELSE p.state]

add_card(p, c) ==
    LET q == [p EXCEPT !.ace_values = IF IsAce(c) THEN MapInsert(p.ace_values, c, FALSE)
                                      ELSE p.ace_values,
                       !.cards_history = Append(p.cards_history, c)]
    IN  recalculate_points(q)

(* ------------------------------- Game --------------------------------- *)
\* faulty variant: the deck is built from the first six cards only
Game_new_ShortDeck(creator_id, creator_email, timeout, start) ==
    [creator_id |-> creator_id,
     participants |-> [u \in {creator_id} |-> [email |-> creator_email, role |-> "Creator"]],
     players |-> [e \in {creator_email} |-> Player_new(creator_email)],
     dealer |-> Player_new("dealer"),
     available_cards |-> [k \in 1..6 |-> k],
     finished |-> FALSE,
     turn_order |-> <<creator_email>>,
     current_turn_index |-> 0,
     enrollment_timeout_seconds |-> timeout,
     enrollment_start_time |-> start,
     enrollment_closed |-> FALSE,
     active |-> TRUE]

Game_new(creator_id, creator_email, timeout, start) ==
    [creator_id |-> creator_id,
     participants |-> [u \in {creator_id} |-> [email |-> creator_email, role |-> "Creator"]],
     players |-> [e \in {creator_email} |-> Player_new(creator_email)],
     dealer |-> Player_new("dealer"),
     available_cards |-> [k \in 1..DECK_SIZE |-> k],
     finished |-> FALSE,
     turn_order |-> <<creator_email>>,
     current_turn_index |-> 0,
     enrollment_timeout_seconds |-> timeout,
     enrollment_start_time |-> start,
     enrollment_closed |-> FALSE,
     active |-> TRUE]

Res(g, r) == [g |-> g, r |-> r]

get_current_player(g) ==
    IF Len(g.turn_order) = 0 THEN {}
    ELSE IF g.current_turn_index < Len(g.turn_order)
         THEN {g.turn_order[g.current_turn_index + 1]}
         ELSE {}

\* faulty variant: any Active player may act, whoever's turn it is
can_player_act_NoTurnCheck(g, email) ==
    IF ~g.enrollment_closed THEN FALSE
    ELSE IF email \in DOMAIN g.players
         THEN g.players[email].state = "Active"
         ELSE FALSE

can_player_act(g, email) ==
    IF ~g.enrollment_closed THEN FALSE
    ELSE IF email \in get_current_player(g) /\ email \in DOMAIN g.players
         THEN g.players[email].state = "Active"
         ELSE FALSE

RECURSIVE AdvanceLoop(_, _, _)
AdvanceLoop(g, idx, initial_index) ==
    LET next == (idx + 1) % Len(g.turn_order)
        email == g.turn_order[next + 1]
    IN  IF next = initial_index THEN next
        ELSE IF email \in DOMAIN g.players /\ g.players[email].state = "Active" THEN next
        ELSE AdvanceLoop(g, next, initial_index)

\* faulty variant: the turn goes to the next seat whatever its player's state
advance_turn_NoSkip(g) ==
    IF Len(g.turn_order) = 0 THEN g
    ELSE [g EXCEPT !.current_turn_index = (g.current_turn_index + 1) % Len(g.turn_order)]

advance_turn(g) ==
    IF Len(g.turn_order) = 0 THEN g
    ELSE [g EXCEPT !.current_turn_index =
              AdvanceLoop(g, g.current_turn_index, g.current_turn_index)]

check_auto_finish(g) ==
    IF DOMAIN g.players = {} THEN FALSE
    ELSE \A e \in DOMAIN g.players :
            g.players[e].state = "Standing" \/ g.players[e].state = "Busted"

\* the while loop of play_dealer: every way the dealer's draws can go
RECURSIVE DealerLoop(_)
DealerLoop(g) ==
    IF g.dealer.points < DEALER_STAND_AT /\ ~g.dealer.busted
    THEN IF Len(g.available_cards) = 0
         THEN {Res(g, "DeckEmpty")}
         ELSE UNION { DealerLoop([g EXCEPT
                          !.available_cards = RemoveAt(g.available_cards, i),
                          !.dealer = add_card(g.dealer, g.available_cards[i + 1])])
                      : i \in RandomIndexes(Len(g.available_cards)) }
    ELSE {Res(IF ~g.dealer.busted THEN [g EXCEPT !.dealer.state = "Standing"] ELSE g, "Ok")}

\* faulty variant: the dealer takes one card and stands
play_dealer_OneCard(g) ==
    IF g.finished THEN {Res(g, "GameAlreadyFinished")}
    ELSE IF Len(g.available_cards) = 0 THEN {Res(g, "DeckEmpty")}
    ELSE {Res([g EXCEPT !.available_cards = RemoveAt(g.available_cards, i),
                        !.dealer = [add_card(g.dealer, g.available_cards[i + 1])
                                       EXCEPT !.state = "Standing"]], "Ok")
          : i \in RandomIndexes(Len(g.available_cards))}

play_dealer(g) ==
    IF g.finished THEN {Res(g, "GameAlreadyFinished")}
    ELSE DealerLoop(g)

\* faulty variant: the game is marked finished without dealer play
AutoFinish_NoDealer(g) ==
    IF check_auto_finish(g)
    THEN {Res([g EXCEPT !.finished = TRUE], "Ok")}
    ELSE {Res(g, "Ok")}

\* the tail shared by draw_card and stand: auto-finish with dealer play
AutoFinish(g) ==
    IF check_auto_finish(g)
    THEN { IF d.r = "Ok" THEN Res([d.g EXCEPT !.finished = TRUE], "Ok") ELSE d
           : d \in play_dealer(g) }
    ELSE {Res(g, "Ok")}

\* faulty variant: the player is handed the top card while the card at the
\* random index is the one removed
Game_draw_card_WrongCard(g, email) ==
    IF g.finished THEN {Res(g, "GameAlreadyFinished")}
    ELSE IF Len(g.available_cards) = 0 THEN {Res(g, "DeckEmpty")}
    ELSE IF ~g.enrollment_closed THEN {Res(g, "EnrollmentNotClosed")}
    ELSE IF ~can_player_act(g, email) THEN {Res(g, "NotPlayerTurn")}
    ELSE IF email \notin DOMAIN g.players THEN {Res(g, "PlayerNotInGame")}
    ELSE IF g.players[email].busted THEN {Res(g, "PlayerAlreadyBusted")}
    ELSE IF g.players[email].state # "Active" THEN {Res(g, "PlayerNotActive")}
    ELSE UNION { AutoFinish(advance_turn([g EXCEPT
                     !.available_cards = RemoveAt(g.available_cards, i),
                     !.players[email] = add_card(g.players[email], g.available_cards[1])]))
                 : i \in RandomIndexes(Len(g.available_cards)) }

Game_draw_card(g, email) ==
    IF g.finished THEN {Res(g, "GameAlreadyFinished")}
    ELSE IF Len(g.available_cards) = 0 THEN {Res(g, "DeckEmpty")}
    ELSE IF ~g.enrollment_closed THEN {Res(g, "EnrollmentNotClosed")}
    ELSE IF ~can_player_act(g, email) THEN {Res(g, "NotPlayerTurn")}
    ELSE IF email \notin DOMAIN g.players THEN {Res(g, "PlayerNotInGame")}
    ELSE IF g.players[email].busted THEN {Res(g, "PlayerAlreadyBusted")}
    ELSE IF g.players[email].state # "Active" THEN {Res(g, "PlayerNotActive")}
    ELSE UNION { AutoFinish(advance_turn([g EXCEPT
                     !.available_cards = RemoveAt(g.available_cards, i),
                     !.players[email] = add_card(g.players[email], g.available_cards[i + 1])]))
                 : i \in RandomIndexes(Len(g.available_cards)) }

Game_stand(g, email) ==
    IF g.finished THEN {Res(g, "GameAlreadyFinished")}
    ELSE IF ~g.enrollment_closed THEN {Res(g, "EnrollmentNotClosed")}
    ELSE IF ~can_player_act(g, email) THEN {Res(g, "NotPlayerTurn")}
    ELSE IF email \notin DOMAIN g.players THEN {Res(g, "PlayerNotInGame")}
    ELSE IF g.players[email].state # "Active" THEN {Res(g, "PlayerNotActive")}
    ELSE AutoFinish(advance_turn([g EXCEPT !.players[email].state = "Standing"]))

\* faulty variant: players are still accepted after enrollment was closed
Game_add_player_AfterClose(g, email) ==
    IF ~g.active THEN Res(g, "GameNotActive")
    ELSE IF g.finished THEN Res(g, "GameAlreadyFinished")
    ELSE IF email = "" THEN Res(g, "InvalidEmail")
    ELSE IF email \in DOMAIN g.players THEN Res(g, "PlayerAlreadyEnrolled")
    ELSE IF Cardinality(DOMAIN g.players) >= MAX_PLAYERS THEN Res(g, "InvalidPlayerCount")
    ELSE Res([g EXCEPT !.players = MapInsert(g.players, email, Player_new(email)),
                       !.turn_order = Append(g.turn_order, email)], "Ok")

Game_add_player(g, email) ==
    IF ~g.active THEN Res(g, "GameNotActive")
    ELSE IF g.finished THEN Res(g, "GameAlreadyFinished")
    ELSE IF g.enrollment_closed THEN Res(g, "InvalidPlayerCount")
    ELSE IF email = "" THEN Res(g, "InvalidEmail")
    ELSE IF email \in DOMAIN g.players THEN Res(g, "PlayerAlreadyEnrolled")
    ELSE IF Cardinality(DOMAIN g.players) >= MAX_PLAYERS THEN Res(g, "InvalidPlayerCount")
    ELSE Res([g EXCEPT !.players = MapInsert(g.players, email, Player_new(email)),
                       !.turn_order = Append(g.turn_order, email)], "Ok")

is_enrollment_open(g, t) ==
    IF g.enrollment_closed THEN FALSE
    ELSE (t - g.enrollment_start_time) < g.enrollment_timeout_seconds

\* faulty variant: the count is compared with <=
can_enroll_OffByOne(g, t) ==
    is_enrollment_open(g, t) /\ Cardinality(DOMAIN g.players) <= MAX_PLAYERS

can_enroll(g, t) == is_enrollment_open(g, t) /\ Cardinality(DOMAIN g.players) < MAX_PLAYERS

Game_close_enrollment(g) ==
    IF g.finished THEN Res(g, "GameAlreadyFinished")
    ELSE Res([g EXCEPT !.enrollment_closed = TRUE, !.current_turn_index = 0], "Ok")

\* faulty variant: enrolled players hold the permissions too
has_permission_Players(role) == role \in {"Creator", "Player"}

has_permission(role) == role = "Creator"

can_user_perform(g, user_id) ==
    IF user_id \in DOMAIN g.participants
    THEN has_permission(g.participants[user_id].role)
    ELSE FALSE

is_creator(g, user_id) == g.creator_id = user_id

\* faulty variant: the enrolled user is given the creator's role
add_participant_AsCreator(g, user_id, email) ==
    [g EXCEPT !.participants = MapInsert(g.participants, user_id,
                                         [email |-> email, role |-> "Creator"])]

add_participant(g, user_id, email) ==
    [g EXCEPT !.participants = MapInsert(g.participants, user_id,
                                         [email |-> email, role |-> "Player"])]

\* faulty variant: an Ace once counted as eleven stays at eleven
Game_set_ace_value_Sticky(g, email, card_id, as_eleven) ==
    IF g.finished THEN Res(g, "GameAlreadyFinished")
    ELSE IF email \notin DOMAIN g.players THEN Res(g, "PlayerNotInGame")
    ELSE IF card_id \notin SeqToSet(g.players[email].cards_history) THEN Res(g, "CardNotFound")
    ELSE IF ~IsAce(card_id) THEN Res(g, "NotAnAce")
    ELSE Res([g EXCEPT !.players[email] =
                 recalculate_points([g.players[email] EXCEPT
                     !.ace_values = MapInsert(g.players[email].ace_values, card_id,
                                        as_eleven \/ g.players[email].ace_values[card_id])])],
             "Ok")

\* faulty variant: the flag is stored but the points are not recomputed
Game_set_ace_value_NoRecalc(g, email, card_id, as_eleven) ==
    IF g.finished THEN Res(g, "GameAlreadyFinished")
    ELSE IF email \notin DOMAIN g.players THEN Res(g, "PlayerNotInGame")
    ELSE IF card_id \notin SeqToSet(g.players[email].cards_history) THEN Res(g, "CardNotFound")
    ELSE IF ~IsAce(card_id) THEN Res(g, "NotAnAce")
    ELSE Res([g EXCEPT !.players[email].ace_values =
                 MapInsert(g.players[email].ace_values, card_id, as_eleven)], "Ok")

\* faulty variant: only the player on turn may change an Ace
Game_set_ace_value_OnTurn(g, email, card_id, as_eleven) ==
    IF g.finished THEN Res(g, "GameAlreadyFinished")
    ELSE IF email \notin DOMAIN g.players THEN Res(g, "PlayerNotInGame")
    ELSE IF ~can_player_act(g, email) THEN Res(g, "NotPlayerTurn")
    ELSE IF card_id \notin SeqToSet(g.players[email].cards_history) THEN Res(g, "CardNotFound")
    ELSE IF ~IsAce(card_id) THEN Res(g, "NotAnAce")
    ELSE Res([g EXCEPT !.players[email] =
                 recalculate_points([g.players[email] EXCEPT
                     !.ace_values = MapInsert(g.players[email].ace_values, card_id, as_eleven)])],
             "Ok")

Game_set_ace_value(g, email, card_id, as_eleven) ==
    IF g.finished THEN Res(g, "GameAlreadyFinished")
    ELSE IF email \notin DOMAIN g.players THEN Res(g, "PlayerNotInGame")
    ELSE IF card_id \notin SeqToSet(g.players[email].cards_history) THEN Res(g, "CardNotFound")
    ELSE IF ~IsAce(card_id) THEN Res(g, "NotAnAce")
    ELSE Res([g EXCEPT !.players[email] =
                 recalculate_points([g.players[email] EXCEPT
                     !.ace_values = MapInsert(g.players[email].ace_values, card_id, as_eleven)])],
             "Ok")

Game_finish_game(g) == [g EXCEPT !.finished = TRUE]

\* calculate_results visits the players HashMap in an order the program does
\* not fix: `order` is that order, a sequence holding every player's email once
VisitOrders(g) ==
    {o \in [1..Cardinality(DOMAIN g.players) -> DOMAIN g.players] :
        \A i, j \in DOMAIN o : i # j => o[i] # o[j]}

\* faulty variant: a player level with the dealer is counted as a winner
PlayerOutcome_TieWins(g, email) ==
    LET player == g.players[email]
        dealer_score == IF g.dealer.busted THEN 0 ELSE g.dealer.points
    IN  IF player.busted THEN "Busted"
        ELSE IF dealer_score = 0 THEN "Won"
        ELSE IF player.points >= dealer_score THEN "Won"
        ELSE "Lost"

PlayerOutcome(g, email) ==
    LET player == g.players[email]
        dealer_score == IF g.dealer.busted THEN 0 ELSE g.dealer.points
    IN  IF player.busted THEN "Busted"
        ELSE IF dealer_score = 0 THEN "Won"
        ELSE IF player.points > dealer_score THEN "Won"
        ELSE IF player.points = dealer_score THEN "Push"
        ELSE "Lost"

\* one pass of the loop that tracks winner, highest_score and tied_players
TrackWinner(g, acc, email) ==
    LET player == g.players[email]
        dealer_score == IF g.dealer.busted THEN 0 ELSE g.dealer.points
    IN  IF ~player.busted /\ (dealer_score = 0 \/ player.points > dealer_score)
        THEN IF player.points = acc.highest_score /\ acc.highest_score > 0
             THEN [acc EXCEPT !.tied_players = Append(acc.tied_players, email)]
             ELSE IF player.points > acc.highest_score
                  THEN [acc EXCEPT !.highest_score = player.points,
                                   !.winner = {email},
                                   !.tied_players = <<>>]
                  ELSE acc
        ELSE acc

RECURSIVE ResultsLoop(_, _, _, _)
ResultsLoop(g, order, k, acc) ==
    IF k > Len(order) THEN acc
    ELSE ResultsLoop(g, order, k + 1, TrackWinner(g, acc, order[k]))

calculate_results(g, order) ==
    LET acc == ResultsLoop(g, order, 1,
                   [winner |-> {}, highest_score |-> 0, tied_players |-> <<>>])
        tied == IF Len(acc.tied_players) > 0
                THEN (IF acc.winner # {}
                      THEN <<CHOOSE w \in acc.winner : TRUE>> \o acc.tied_players
                      ELSE acc.tied_players)
                ELSE acc.tied_players
    IN  [winner |-> IF Len(acc.tied_players) > 0 THEN {} ELSE acc.winner,
         tied_players |-> tied,
         highest_score |-> acc.highest_score,
         player_results |-> [e \in DOMAIN g.players |->
                                [points |-> g.players[e].points,
                                 cards_count |-> Len(g.players[e].cards_history),
                                 busted |-> g.players[e].busted,
                                 outcome |-> PlayerOutcome(g, e)]],
         dealer_points |-> g.dealer.points,
         dealer_busted |-> g.dealer.busted]

\* GameError::CoreError(#[from] CoreGameError): a core error the facade
\* does not remap is wrapped
CoreError(e) == "CoreError(" \o e \o ")"

EnrollErr(e) ==
    IF e \in {"GameNotActive", "PlayerAlreadyEnrolled"} THEN e ELSE CoreError(e)

DrawErr(e) ==
    IF e \in {"EnrollmentNotClosed", "NotPlayerTurn", "PlayerNotActive", "GameAlreadyFinished",
              "DeckEmpty", "PlayerAlreadyBusted", "PlayerNotInGame"}
    THEN e ELSE CoreError(e)

(* ------------------------- InvitationService -------------------------- *)
\* GameInvitation::new.  The registry holds one game, so game_id is left out;
\* the fresh Uuid is the invitation's position in the registry; expires_at
\* is the instant the caller passes; created_at is written and never read.
GameInvitation_new(inviter_id, invitee_email, game_enrollment_expires_at) ==
    [inviter_id |-> inviter_id, invitee_email |-> invitee_email,
     status |-> "Pending", expires_at |-> game_enrollment_expires_at]

\* InvitationService::create: the registry after the call and what it returned
InvitationService_create(invs, g, inviter_id, invitee_email, game_enrollment_expires_at) ==
    IF ~can_user_perform(g, inviter_id)
    THEN [invs |-> invs, r |-> "InsufficientPermissions"]
    ELSE [invs |-> Append(invs, GameInvitation_new(inviter_id, invitee_email,
                                                   game_enrollment_expires_at)),
          r |-> "Ok"]

\* GameInvitation::is_expired at the instant now.  expires_at was written by
\* to_rfc3339 and parse_from_rfc3339 reads the same instant back
GameInvitation_is_expired(inv, now) == now > inv.expires_at

\* the ids of the invitations the registry holds
InvitationIds(invs) == 1..Len(invs)

\* the invitation with the status written over
WithStatus(invs, invitation_id, status) == [invs EXCEPT ![invitation_id].status = status]

\* InvitationService::accept
InvitationService_accept(invs, invitation_id, now) ==
    IF invitation_id \notin InvitationIds(invs)
    THEN [invs |-> invs, r |-> "InvitationNotFound"]
    ELSE IF GameInvitation_is_expired(invs[invitation_id], now)
    THEN [invs |-> WithStatus(invs, invitation_id, "Expired"), r |-> "InvitationExpired"]
    ELSE [invs |-> WithStatus(invs, invitation_id, "Accepted"), r |-> "Ok"]

\* InvitationService::decline
InvitationService_decline(invs, invitation_id) ==
    IF invitation_id \notin InvitationIds(invs)
    THEN [invs |-> invs, r |-> "InvitationNotFound"]
    ELSE [invs |-> WithStatus(invs, invitation_id, "Declined"), r |-> "Ok"]

\* Pending invitations that are past their expires_at
Lapsed(invs, now) ==
    {i \in InvitationIds(invs) :
        invs[i].status = "Pending" /\ GameInvitation_is_expired(invs[i], now)}

\* InvitationService::get_pending_for_user: the registry after the call and
\* the ids of the invitations listed
InvitationService_get_pending_for_user(invs, email, now) ==
    LET mine == {i \in InvitationIds(invs) :
                    invs[i].invitee_email = email /\ invs[i].status = "Pending"}
    IN  [invs |-> [i \in InvitationIds(invs) |->
                      IF i \in mine \cap Lapsed(invs, now)
                      THEN [invs[i] EXCEPT !.status = "Expired"] ELSE invs[i]],
         r |-> mine \ Lapsed(invs, now)]

\* InvitationService::cleanup_expired: the registry after the call and the count
InvitationService_cleanup_expired(invs, now) ==
    [invs |-> [i \in InvitationIds(invs) |->
                  IF i \in Lapsed(invs, now)
                  THEN [invs[i] EXCEPT !.status = "Expired"] ELSE invs[i]],
     r |-> Cardinality(Lapsed(invs, now))]

(* --------------------------- GameService ------------------------------ *)
\* faulty variant: the participant is registered before add_player is tried
GameService_enroll_player_Early(g, user_id, t) ==
    IF ~is_enrollment_open(g, t) THEN Res(g, "EnrollmentClosed")
    ELSE IF ~can_enroll(g, t) THEN Res(g, "GameFull")
    ELSE IF get_user(user_id) = {} THEN Res(g, "UserNotFound")
    ELSE LET player_email == CHOOSE e \in get_user(user_id) : TRUE
             h == add_participant(g, user_id, player_email)
             a == Game_add_player(h, player_email)
         IN  IF a.r # "Ok" THEN Res(a.g, EnrollErr(a.r)) ELSE a

GameService_enroll_player(g, user_id, t) ==
    IF ~is_enrollment_open(g, t) THEN Res(g, "EnrollmentClosed")
    ELSE IF ~can_enroll(g, t) THEN Res(g, "GameFull")
    ELSE IF get_user(user_id) = {} THEN Res(g, "UserNotFound")
    ELSE LET player_email == CHOOSE e \in get_user(user_id) : TRUE
             a == Game_add_player(g, player_email)
         IN  IF a.r # "Ok" THEN Res(g, EnrollErr(a.r))
             ELSE Res(add_participant(a.g, user_id, player_email), "Ok")

\* GameService::get_open_games at the instant t: the games it lists, for a
\* registry that holds g
GameService_get_open_games(g, t) ==
    IF g.finished THEN {}
    ELSE IF ~is_enrollment_open(g, t) THEN {}
    ELSE {g}

GameService_close_enrollment(g, user_id) ==
    IF ~can_user_perform(g, user_id) THEN Res(g, "InsufficientPermissions")
    ELSE LET c == Game_close_enrollment(g)
         IN  IF c.r # "Ok" THEN Res(c.g, CoreError(c.r)) ELSE c

GameService_draw_card(g, user_id) ==
    IF get_user(user_id) = {} THEN {Res(g, "UserNotFound")}
    ELSE LET email == CHOOSE e \in get_user(user_id) : TRUE
         IN  { IF d.r # "Ok" THEN Res(d.g, DrawErr(d.r))
               ELSE IF email \notin DOMAIN d.g.players THEN Res(d.g, "PlayerNotInGame")
               ELSE d
               : d \in Game_draw_card(g, email) }

GameService_stand(g, user_id) ==
    IF get_user(user_id) = {} THEN {Res(g, "UserNotFound")}
    ELSE LET email == CHOOSE e \in get_user(user_id) : TRUE
         IN  { IF d.r # "Ok" THEN Res(d.g, CoreError(d.r)) ELSE d
               : d \in Game_stand(g, email) }

GameService_set_ace_value(g, user_id, card_id, as_eleven) ==
    IF get_user(user_id) = {} THEN Res(g, "UserNotFound")
    ELSE LET email == CHOOSE e \in get_user(user_id) : TRUE
             a == Game_set_ace_value(g, email, card_id, as_eleven)
         IN  IF a.r # "Ok" THEN Res(a.g, CoreError(a.r))
             ELSE IF email \notin DOMAIN a.g.players THEN Res(a.g, "PlayerNotInGame")
             ELSE a

GameService_add_player_to_game(g, user_id) ==
    IF get_user(user_id) = {} THEN Res(g, "UserNotFound")
    ELSE LET email == CHOOSE e \in get_user(user_id) : TRUE
             a == Game_add_player(g, email)
         IN  IF a.r # "Ok" THEN Res(a.g, CoreError(a.r)) ELSE a

\* Vec::retain(|email| email != player_email)
RECURSIVE Retain(_, _)
Retain(s, x) ==
    IF Len(s) = 0 THEN <<>>
    ELSE IF Head(s) = x THEN Retain(Tail(s), x)
    ELSE <<Head(s)>> \o Retain(Tail(s), x)

\* faulty variant: the kicked player's email is left in turn_order
GameService_kick_player_KeepTurn(g, kicker_id, player_id) ==
    IF ~can_user_perform(g, kicker_id) THEN Res(g, "InsufficientPermissions")
    ELSE IF is_creator(g, player_id) THEN Res(g, CoreError("CannotKickCreator"))
    ELSE IF g.enrollment_closed THEN Res(g, "EnrollmentClosed")
    ELSE IF player_id \notin DOMAIN g.participants THEN Res(g, "PlayerNotInGame")
    ELSE LET player_email == g.participants[player_id].email
         IN  Res([g EXCEPT !.participants = MapRemove(g.participants, player_id),
                           !.players = MapRemove(g.players, player_email)], "Ok")

\* faulty variant: the target is not compared with the creator
GameService_kick_player_AnyTarget(g, kicker_id, player_id) ==
    IF ~can_user_perform(g, kicker_id) THEN Res(g, "InsufficientPermissions")
    ELSE IF g.enrollment_closed THEN Res(g, "EnrollmentClosed")
    ELSE IF player_id \notin DOMAIN g.participants THEN Res(g, "PlayerNotInGame")
    ELSE LET player_email == g.participants[player_id].email
         IN  Res([g EXCEPT !.participants = MapRemove(g.participants, player_id),
                           !.players = MapRemove(g.players, player_email),
                           !.turn_order = Retain(g.turn_order, player_email)], "Ok")

\* faulty variant: players are kicked after enrollment was closed too
GameService_kick_player_AfterClose(g, kicker_id, player_id) ==
    IF ~can_user_perform(g, kicker_id) THEN Res(g, "InsufficientPermissions")
    ELSE IF is_creator(g, player_id) THEN Res(g, CoreError("CannotKickCreator"))
    ELSE IF player_id \notin DOMAIN g.participants THEN Res(g, "PlayerNotInGame")
    ELSE LET player_email == g.participants[player_id].email
         IN  Res([g EXCEPT !.participants = MapRemove(g.participants, player_id),
                           !.players = MapRemove(g.players, player_email),
                           !.turn_order = Retain(g.turn_order, player_email)], "Ok")

GameService_kick_player(g, kicker_id, player_id) ==
    IF ~can_user_perform(g, kicker_id) THEN Res(g, "InsufficientPermissions")
    ELSE IF is_creator(g, player_id) THEN Res(g, CoreError("CannotKickCreator"))
    ELSE IF g.enrollment_closed THEN Res(g, "EnrollmentClosed")
    ELSE IF player_id \notin DOMAIN g.participants THEN Res(g, "PlayerNotInGame")
    ELSE LET player_email == g.participants[player_id].email
         IN  Res([g EXCEPT !.participants = MapRemove(g.participants, player_id),
                           !.players = MapRemove(g.players, player_email),
                           !.turn_order = Retain(g.turn_order, player_email)], "Ok")

GameService_finish_game(g, user_id) ==
    IF ~can_user_perform(g, user_id) THEN Res(g, "InsufficientPermissions")
    ELSE Res(Game_finish_game(g), "Ok")

(* ---------------------------- UserService ----------------------------- *)
\* A password is the sequence of its characters.
is_uppercase(c) == c \in {"A", "B"}
is_lowercase(c) == c \in {"a", "b"}
is_numeric(c) == c \in {"1", "2"}
is_alphanumeric(c) == is_uppercase(c) \/ is_lowercase(c) \/ is_numeric(c)

GoodPassword == <<"A", "a", "1", "!", "a", "a", "a", "a">>
OtherPassword == <<"B", "b", "2", "#", "b", "b", "b", "b">>
ShortPassword == <<"A", "a", "1", "!">>
EmptyPassword == <<>>

\* passwords the callers type
PasswordInputs == {GoodPassword, OtherPassword, ShortPassword, EmptyPassword}

\* emails the callers type, and those of them EMAIL_REGEX matches
EmailInputs == {"a@x.com", "b@x.com", "user@domain"}
validate_email(email) == email \in {"a@x.com", "b@x.com"}

\* validation::validate_password
validate_password(password) ==
    /\ Len(password) >= MIN_PASSWORD_LENGTH
    /\ \E i \in DOMAIN password : is_uppercase(password[i])
    /\ \E i \in DOMAIN password : is_lowercase(password[i])
    /\ \E i \in DOMAIN password : is_numeric(password[i])
    /\ \E i \in DOMAIN password : ~is_alphanumeric(password[i])

\* Option: None, or Some value
None == <<>>
Some(x) == <<x>>

\* salts OsRng may generate
Salts == {1, 2}

\* password::hash_password: the Argon2id hashes of the password, one per
\* salt, or the error for the empty password
hash_password(password) ==
    IF password = EmptyPassword THEN {[r |-> "InvalidPassword", hash |-> None]}
    ELSE {[r |-> "Ok", hash |-> [password |-> password, salt |-> salt]] : salt \in Salts}

\* password::verify_password: Ok(valid), or the error for the empty password
verify_password(password, hash) ==
    IF password = EmptyPassword THEN [r |-> "InvalidPassword", valid |-> FALSE]
    ELSE [r |-> "Ok", valid |-> hash.password = password]

\* User::new
User_new(id, email, password_hash) ==
    [id |-> id, email |-> email, password_hash |-> password_hash,
     is_active |-> TRUE, last_login |-> None]

\* UserService::new
UserService_new == [users |-> [id \in {} |-> <<>>], email_index |-> [e \in {} |-> 0]]

\* Uuid::new_v4 for the next user: ids are numbered in the order they are made
NewUserId(store) == Cardinality(DOMAIN store.users) + 1

\* UserService::register: the stores after the call and the Result, one per
\* salt the hash may get
UserService_register(store, email, password) ==
    IF ~validate_email(email) THEN {[store |-> store, r |-> "ValidationError", id |-> None]}
    ELSE IF ~validate_password(password)
    THEN {[store |-> store, r |-> "WeakPassword", id |-> None]}
    ELSE IF email \in DOMAIN store.email_index
    THEN {[store |-> store, r |-> "UserAlreadyExists", id |-> None]}
    ELSE {IF h.r # "Ok"
          THEN [store |-> store, r |-> "PasswordHashError", id |-> None]
          ELSE LET user_id == NewUserId(store)
               IN  [store |-> [users |-> MapInsert(store.users, user_id,
                                                  User_new(user_id, email, h.hash)),
                              email_index |-> MapInsert(store.email_index, email, user_id)],
                    r |-> "Ok", id |-> Some(user_id)]
          : h \in hash_password(password)}

\* login that forgets to stamp last_login
UserService_login_NoStamp(store, email, password, now) ==
    IF email \notin DOMAIN store.email_index
    THEN [store |-> store, r |-> "InvalidCredentials", user |-> None]
    ELSE LET user_id == store.email_index[email]
             user == store.users[user_id]
             password_valid == verify_password(password, user.password_hash)
         IN  IF ~user.is_active
             THEN [store |-> store, r |-> "AccountInactive", user |-> None]
             ELSE IF password_valid.r # "Ok"
             THEN [store |-> store, r |-> "PasswordHashError", user |-> None]
             ELSE IF ~password_valid.valid
             THEN [store |-> store, r |-> "InvalidCredentials", user |-> None]
             ELSE [store |-> store, r |-> "Ok", user |-> Some(user)]

\* UserService::login: the stores after the call, the Result and the User
\* it carries
UserService_login(store, email, password, now) ==
    IF email \notin DOMAIN store.email_index
    THEN [store |-> store, r |-> "InvalidCredentials", user |-> None]
    ELSE LET user_id == store.email_index[email]
         IN  IF user_id \notin DOMAIN store.users
             THEN [store |-> store, r |-> "UserNotFound", user |-> None]
             ELSE LET user == store.users[user_id]
                      password_valid == verify_password(password, user.password_hash)
                      stamped == [user EXCEPT !.last_login = Some(now)]
                  IN  IF ~user.is_active
                      THEN [store |-> store, r |-> "AccountInactive", user |-> None]
                      ELSE IF password_valid.r # "Ok"
                      THEN [store |-> store, r |-> "PasswordHashError", user |-> None]
                      ELSE IF ~password_valid.valid
                      THEN [store |-> store, r |-> "InvalidCredentials", user |-> None]
                      ELSE [store |-> [store EXCEPT !.users[user_id] = stamped],
                            r |-> "Ok", user |-> Some(stamped)]

\* UserService::change_password, one result per salt the new hash may get
UserService_change_password(store, user_id, old_password, new_password) ==
    IF user_id \notin DOMAIN store.users THEN {[store |-> store, r |-> "UserNotFound"]}
    ELSE LET user == store.users[user_id]
             old_password_valid == verify_password(old_password, user.password_hash)
         IN  IF old_password_valid.r # "Ok"
             THEN {[store |-> store, r |-> "PasswordHashError"]}
             ELSE IF ~old_password_valid.valid
             THEN {[store |-> store, r |-> "InvalidCredentials"]}
             ELSE IF ~validate_password(new_password)
             THEN {[store |-> store, r |-> "WeakPassword"]}
             ELSE {IF h.r # "Ok"
                   THEN [store |-> store, r |-> "PasswordHashError"]
                   ELSE [store |-> [store EXCEPT !.users[user_id].password_hash = h.hash],
                         r |-> "Ok"]
                   : h \in hash_password(new_password)}

\* UserService::deactivate_account and activate_account
UserService_set_active(store, user_id, is_active) ==
    IF user_id \notin DOMAIN store.users THEN [store |-> store, r |-> "UserNotFound"]
    ELSE [store |-> [store EXCEPT !.users[user_id].is_active = is_active], r |-> "Ok"]

(* ---------------------------- RateLimiter ----------------------------- *)
\* keys the request handlers pass (the caller's user id)
LimiterKeys == {"key1", "key2"}

\* values of config.rate_limit.requests_per_minute
Limits == 1..MaxLimit

\* RateLimiter::new: no key has an entry yet
RateLimiter_new(requests_per_minute) ==
    [requests |-> [k \in {} |-> <<>>], requests_per_minute |-> requests_per_minute]

\* the `while let Some(&first) = player_requests.front()` loop
RECURSIVE PopExpired(_, _)
PopExpired(player_requests, one_minute_ago) ==
    IF player_requests # <<>> /\ Head(player_requests) < one_minute_ago
    THEN PopExpired(Tail(player_requests), one_minute_ago)
    ELSE player_requests

\* requests.entry(key).or_default() after the call stored q for the key
WithEntry(requests, key, q) ==
    [k \in DOMAIN requests \cup {key} |-> IF k = key THEN q ELSE requests[k]]

\* check_rate_limit that stores the instant of a rejected call as well
check_rate_limit_Records(l, key, now) ==
    LET q0 == IF key \in DOMAIN l.requests THEN l.requests[key] ELSE <<>>
        player_requests == PopExpired(q0, now - RATE_WINDOW)
    IN  [l |-> [l EXCEPT !.requests =
                   WithEntry(l.requests, key, Append(player_requests, now))],
         r |-> IF Len(player_requests) >= l.requests_per_minute
               THEN "RateLimitExceeded" ELSE "Ok"]

\* check_rate_limit that lets one request too many through
check_rate_limit_OffByOne(l, key, now) ==
    LET q0 == IF key \in DOMAIN l.requests THEN l.requests[key] ELSE <<>>
        player_requests == PopExpired(q0, now - RATE_WINDOW)
    IN  IF Len(player_requests) > l.requests_per_minute
        THEN [l |-> [l EXCEPT !.requests = WithEntry(l.requests, key, player_requests)],
              r |-> "RateLimitExceeded"]
        ELSE [l |-> [l EXCEPT !.requests =
                         WithEntry(l.requests, key, Append(player_requests, now))],
              r |-> "Ok"]

\* RateLimiter::check_rate_limit, the whole call under the requests lock:
\* the limiter after the call and what it returned
check_rate_limit(l, key, now) ==
    LET one_minute_ago == now - RATE_WINDOW
        q0 == IF key \in DOMAIN l.requests THEN l.requests[key] ELSE <<>>
        player_requests == PopExpired(q0, one_minute_ago)
    IN  IF Len(player_requests) >= l.requests_per_minute
        THEN [l |-> [l EXCEPT !.requests = WithEntry(l.requests, key, player_requests)],
              r |-> "RateLimitExceeded"]
        ELSE [l |-> [l EXCEPT !.requests =
                         WithEntry(l.requests, key, Append(player_requests, now))],
              r |-> "Ok"]

(* ------------------------------ state --------------------------------- *)
VARIABLES
    game,          \* the Game held by the registry
    invitations,   \* InvitationService::invitations, in order of creation
    games_lock,    \* the Mutex of GameService::games: 0 when free, else its holder
    pc,            \* where each thread is in its facade call
    call,          \* the facade call each thread makes
    pending,       \* what a thread's engine call has computed under the lock
    ret,           \* what each thread's call returned
    game0,         \* the game when the threads were started
    users,         \* UserService::users, by user id
    email_index,   \* UserService::email_index
    credentials,   \* per user id, the email and password register was called with
    changed,       \* ids of the users whose password change_password replaced
    limiter,       \* the RateLimiter shared by the request handlers
    clock,         \* Instant::now(), in seconds
    accepted,      \* per key, the instants of the calls check_rate_limit accepted
    locks,         \* per Mutex of the services, 0 when free, else the thread holding it
    job            \* per thread, the service call it is in and the step it is at

threadVars == <<games_lock, pc, call, pending, ret, game0>>

limiterVars == <<limiter, clock, accepted>>

userVars == <<users, email_index, credentials, changed>>

\* what neither the game operations, nor the invitations, nor the threads touch
lockVars == <<locks, job>>

aside == <<limiterVars, userVars, lockVars>>

\* what the operations on the game leave alone
nonGame == <<invitations, threadVars, aside>>

vars == <<game, invitations, threadVars, aside>>

Threads == 1..NumThreads

NoCall == [op |-> "none", user_id |-> 0, player_id |-> 0, card_id |-> 0,
           as_eleven |-> FALSE, now |-> 0]

\* a Result the caller holds: the error, or Ok with the state the response
\* is built from
NoResult == [r |-> "none", view |-> {}]

\* the Mutexes of UserService, GameService and InvitationService
Mutexes == {"email_index", "users", "games", "invitations"}

\* a thread that is in no call
NoJob == [op |-> "none", pc |-> 0, email |-> "", r |-> "none", rivals |-> {}]

Init ==
    /\ \E c \in Creators, timeout \in Timeouts :
          game = Game_new(c, EmailNames[c], timeout, 0)
    /\ invitations = <<>>
    /\ games_lock = 0
    /\ pc = [t \in Threads |-> "idle"]
    /\ call = [t \in Threads |-> NoCall]
    /\ pending = [t \in Threads |-> {}]
    /\ ret = [t \in Threads |-> NoResult]
    /\ game0 = {}
    /\ users = UserService_new.users
    /\ email_index = UserService_new.email_index
    /\ credentials = [id \in {} |-> <<>>]
    /\ changed = {}
    /\ limiter = RateLimiter_new(MaxLimit)
    /\ clock = 0
    /\ accepted = [k \in LimiterKeys |-> <<>>]
    /\ locks = [m \in Mutexes |-> 0]
    /\ job = [t \in Threads |-> NoJob]

\* chrono::Utc::now() as read by a call.  is_enrollment_open is the only code
\* that reads the clock, and it only compares the time elapsed since
\* enrollment_start_time with the timeout; nothing the program stores depends
\* on the instant of an earlier call.  A call arrives inside the enrollment
\* window or after it.
ClockReadings(g) ==
    {g.enrollment_start_time, g.enrollment_start_time + g.enrollment_timeout_seconds}

\* card ids a caller passes to set_ace_value: the Aces the players hold, one
\* other card they hold and the card on top of the deck
PlayerCards(g) == UNION {SeqToSet(g.players[e].cards_history) : e \in DOMAIN g.players}

CardInputs(g) ==
    LET aces == {c \in PlayerCards(g) : IsAce(c)}
        others == PlayerCards(g) \ aces
    IN  aces \cup (IF others # {} THEN {CHOOSE c \in others : TRUE} ELSE {})
             \cup (IF Len(g.available_cards) > 0 THEN {g.available_cards[1]} ELSE {})

\* callers ask for a card only while the players hold fewer than MaxDraws cards
WantsCard(g) == Cardinality(PlayerCards(g)) < MaxDraws

EnrollPlayer ==
    \E u \in UserIds, t \in ClockReadings(game) :
        /\ game' = GameService_enroll_player(game, u, t).g
        /\ UNCHANGED nonGame

AddPlayerToGame ==
    \E u \in UserIds :
        /\ game' = GameService_add_player_to_game(game, u).g
        /\ UNCHANGED nonGame

KickPlayer ==
    \E k \in UserIds, t \in UserIds :
        /\ game' = GameService_kick_player(game, k, t).g
        /\ UNCHANGED nonGame

CloseEnrollment ==
    \E u \in UserIds :
        /\ game' = GameService_close_enrollment(game, u).g
        /\ UNCHANGED nonGame

DrawCard ==
    \E u \in UserIds :
        /\ WantsCard(game)
        /\ \E o \in GameService_draw_card(game, u) : game' = o.g
        /\ UNCHANGED nonGame

Stand ==
    \E u \in UserIds :
        /\ \E o \in GameService_stand(game, u) : game' = o.g
        /\ UNCHANGED nonGame

SetAceValue ==
    \E u \in UserIds, c \in CardInputs(game), v \in BOOLEAN :
        /\ game' = GameService_set_ace_value(game, u, c, v).g
        /\ UNCHANGED nonGame

FinishGame ==
    \E u \in UserIds :
        /\ game' = GameService_finish_game(game, u).g
        /\ UNCHANGED nonGame

\* emails a caller invites: those of the calling users and of one more user
InviteeEmails == {EmailNames[u] : u \in 1..(NumUsers + 1)}

\* the enrollment deadline a caller passes as the invitation's expires_at
ExpiryInputs(g) == {g.enrollment_start_time + g.enrollment_timeout_seconds}

CreateInvitation ==
    \E u \in UserIds, e \in InviteeEmails, x \in ExpiryInputs(game) :
        /\ Len(invitations) < MaxInvitations
        /\ invitations' = InvitationService_create(invitations, game, u, e, x).invs
        /\ UNCHANGED <<game, threadVars, aside>>

Next ==
    \/ EnrollPlayer
    \/ AddPlayerToGame
    \/ KickPlayer
    \/ CloseEnrollment
    \/ DrawCard
    \/ Stand
    \/ SetAceValue
    \/ FinishGame

Spec == Init /\ [][Next]_vars

\* enrollment, permissions and invitations, without the play of the cards
NextInvite ==
    \/ EnrollPlayer
    \/ AddPlayerToGame
    \/ KickPlayer
    \/ CloseEnrollment
    \/ FinishGame
    \/ CreateInvitation

SpecInvite == Init /\ [][NextInvite]_vars

\* the filling of a game: the registered users ask to join one after the
\* other, in the order of their ids, by enroll_player or by
\* add_player_to_game
NextArrival(g) ==
    {u \in Registered :
        /\ EmailNames[u] \notin DOMAIN g.players
        /\ \A v \in Registered : v < u => EmailNames[v] \in DOMAIN g.players}

EnrollArrival ==
    \E u \in NextArrival(game), t \in ClockReadings(game) :
        /\ game' = GameService_enroll_player(game, u, t).g
        /\ UNCHANGED nonGame

AddArrivalToGame ==
    \E u \in NextArrival(game) :
        /\ game' = GameService_add_player_to_game(game, u).g
        /\ UNCHANGED nonGame

NextFull ==
    \/ EnrollArrival
    \/ AddArrivalToGame
    \/ CloseEnrollment
    \/ FinishGame

SpecFull == Init /\ [][NextFull]_vars

(* ----------------------------- turn order ---------------------------- *)
\* the users that call draw_card and stand at a table of MaxSeats players,
\* and a caller the Identity Store does not know
SeatUsers == 0..MaxSeats

SeatArrival ==
    /\ Cardinality(DOMAIN game.players) < MaxSeats
    /\ EnrollArrival

SeatDraw ==
    \E u \in SeatUsers :
        /\ WantsCard(game)
        /\ \E o \in GameService_draw_card(game, u) : game' = o.g
        /\ UNCHANGED nonGame

SeatStand ==
    \E u \in SeatUsers :
        /\ \E o \in GameService_stand(game, u) : game' = o.g
        /\ UNCHANGED nonGame

NextTurns ==
    \/ SeatArrival
    \/ CloseEnrollment
    \/ SeatDraw
    \/ SeatStand

SpecTurns == Init /\ [][NextTurns]_vars

(* --------------------------- play to the end -------------------------- *)
\* After the one close_enrollment only draw_card and stand are called, and
\* players draw for as long as the engine lets them.
PlayUsers == 1..PlaySeats

PlaySeat ==
    /\ Cardinality(DOMAIN game.players) < PlaySeats
    /\ EnrollArrival

PlayClose ==
    /\ ~game.enrollment_closed
    /\ CloseEnrollment

PlayDraw ==
    \E u \in PlayUsers :
        /\ game.enrollment_closed
        /\ \E o \in GameService_draw_card(game, u) : game' = o.g
        /\ UNCHANGED nonGame

PlayStand ==
    \E u \in PlayUsers :
        /\ game.enrollment_closed
        /\ \E o \in GameService_stand(game, u) : game' = o.g
        /\ UNCHANGED nonGame

NextPlay ==
    \/ PlaySeat
    \/ PlayClose
    \/ PlayDraw
    \/ PlayStand

\* play is going on and some player may act (can_player_act)
TurnPending ==
    /\ game.enrollment_closed
    /\ ~game.finished
    /\ \E e \in DOMAIN game.players : can_player_act(game, e)

\* Weak fairness of play: the player who may act always eventually makes a
\* successful draw_card or stand. It is the formula of
\* WF_vars(PlayDraw \/ PlayStand) written out, []<>~ENABLED <<A>>_vars \/
\* []<><<A>>_vars, with TurnPending for the enabling condition: TurnPending
\* implies that a stand by the player on turn succeeds (part of C36), so
\* this asks no more than the WF formula does.
PlayFairness ==
    \/ []<>(~TurnPending)
    \/ []<><<PlayDraw \/ PlayStand>>_vars

SpecPlay == Init /\ [][NextPlay]_vars /\ PlayFairness

\* the same games with set_ace_value called at any moment
NextDeck ==
    \/ PlaySeat
    \/ PlayClose
    \/ PlayDraw
    \/ PlayStand
    \/ SetAceValue

SpecDeck == Init /\ [][NextDeck]_vars

(* ---------------------------- rate limiting --------------------------- *)
nonLimiter == <<game, invitations, threadVars, userVars, lockVars>>

\* the server is started with another configured limit
NewLimiter ==
    \E n \in Limits :
        /\ clock = 0
        /\ DOMAIN limiter.requests = {}
        /\ limiter' = RateLimiter_new(n)
        /\ UNCHANGED <<clock, accepted, nonLimiter>>

\* a handler calls check_rate_limit with some key at the current instant
CheckRateLimit ==
    \E key \in LimiterKeys :
        LET o == check_rate_limit(limiter, key, clock)
        IN  /\ limiter' = o.l
            /\ accepted' = IF o.r = "Ok"
                           THEN [accepted EXCEPT ![key] = Append(@, clock)]
                           ELSE accepted
            /\ UNCHANGED <<clock, nonLimiter>>

\* time passes
Tick ==
    /\ clock + ClockStep <= MaxClock
    /\ clock' = clock + ClockStep
    /\ UNCHANGED <<limiter, accepted, nonLimiter>>

NextLimiter ==
    \/ NewLimiter
    \/ CheckRateLimit
    \/ Tick

SpecLimiter == Init /\ [][NextLimiter]_vars

(* ------------------------ invitation lifecycle ------------------------ *)
nonInvitation == <<game, threadVars, limiter, accepted, userVars, lockVars>>

\* ids a caller passes: those of the registry's invitations and an unknown one
AcceptInvitation ==
    \E id \in 1..MaxInvitations :
        /\ invitations' = InvitationService_accept(invitations, id, clock).invs
        /\ UNCHANGED <<clock, nonInvitation>>

DeclineInvitation ==
    \E id \in 1..MaxInvitations :
        /\ invitations' = InvitationService_decline(invitations, id).invs
        /\ UNCHANGED <<clock, nonInvitation>>

GetPendingForUser ==
    \E e \in InviteeEmails :
        /\ invitations' = InvitationService_get_pending_for_user(invitations, e, clock).invs
        /\ UNCHANGED <<clock, nonInvitation>>

CleanupExpired ==
    /\ invitations' = InvitationService_cleanup_expired(invitations, clock).invs
    /\ UNCHANGED <<clock, nonInvitation>>

NextAnswer ==
    \/ CreateInvitation
    \/ AcceptInvitation
    \/ DeclineInvitation
    \/ GetPendingForUser
    \/ CleanupExpired
    \/ Tick

SpecAnswer == Init /\ [][NextAnswer]_vars

(* ------------------------------ accounts ------------------------------ *)
nonUser == <<game, invitations, threadVars, limiterVars, lockVars>>

\* the two stores of the UserService
Store == [users |-> users, email_index |-> email_index]

\* ids a caller passes: those of the users and an unknown one
UserIdInputs == 1..(Cardinality(DOMAIN users) + 1)

Register ==
    \E email \in EmailInputs, password \in PasswordInputs :
        \E o \in UserService_register(Store, email, password) :
            /\ users' = o.store.users
            /\ email_index' = o.store.email_index
            /\ credentials' = IF o.r = "Ok"
                              THEN MapInsert(credentials, o.id[1],
                                             [email |-> email, password |-> password])
                              ELSE credentials
            /\ UNCHANGED <<changed, nonUser>>

Login ==
    \E email \in EmailInputs, password \in PasswordInputs :
        LET o == UserService_login(Store, email, password, clock)
        IN  /\ users' = o.store.users
            /\ UNCHANGED <<email_index, credentials, changed, nonUser>>

ChangePassword ==
    \E user_id \in UserIdInputs, old \in PasswordInputs, new \in PasswordInputs :
        \E o \in UserService_change_password(Store, user_id, old, new) :
            /\ users' = o.store.users
            /\ changed' = IF o.r = "Ok" THEN changed \cup {user_id} ELSE changed
            /\ UNCHANGED <<email_index, credentials, nonUser>>

DeactivateAccount ==
    \E user_id \in UserIdInputs :
        /\ users' = UserService_set_active(Store, user_id, FALSE).store.users
        /\ UNCHANGED <<email_index, credentials, changed, nonUser>>

ActivateAccount ==
    \E user_id \in UserIdInputs :
        /\ users' = UserService_set_active(Store, user_id, TRUE).store.users
        /\ UNCHANGED <<email_index, credentials, changed, nonUser>>

NextUsers ==
    \/ Register
    \/ Login
    \/ ChangePassword
    \/ DeactivateAccount
    \/ ActivateAccount
    \/ Tick

SpecUsers == Init /\ [][NextUsers]_vars

(* ---------------------------- concurrency ----------------------------- *)
\* Threads share one GameService.  draw_card, stand and set_ace_value first
\* look the user up (UserService::get_user, under the users lock, which is
\* released at once) and then lock games; enroll_player, kick_player and
\* finish_game lock games first.  The engine call reads and writes the game
\* while the thread holds the lock and the guard is dropped on return.
LooksUpFirst(c) == c.op \in {"draw_card", "stand", "set_ace_value"}

\* the facade call c made on game g: every result it can give
Outcomes(g, c) ==
    CASE c.op = "draw_card" -> GameService_draw_card(g, c.user_id)
      [] c.op = "stand" -> GameService_stand(g, c.user_id)
      [] c.op = "set_ace_value" ->
             {GameService_set_ace_value(g, c.user_id, c.card_id, c.as_eleven)}
      [] c.op = "enroll_player" -> {GameService_enroll_player(g, c.user_id, c.now)}
      [] c.op = "kick_player" -> {GameService_kick_player(g, c.user_id, c.player_id)}
      [] c.op = "finish_game" -> {GameService_finish_game(g, c.user_id)}

\* what the caller gets back from outcome o
Returned(o) == [r |-> o.r, view |-> IF o.r = "Ok" THEN {o.g} ELSE {}]

\* the calls thread t may make on game g: t acts for one user
ThreadUser(t) == ((t - 1) % NumUsers) + 1

CallInputs(g, t) ==
    LET u == ThreadUser(t)
    IN  {[NoCall EXCEPT !.op = "draw_card", !.user_id = u],
         [NoCall EXCEPT !.op = "stand", !.user_id = u],
         [NoCall EXCEPT !.op = "finish_game", !.user_id = u]}
        \cup {[NoCall EXCEPT !.op = "set_ace_value", !.user_id = u, !.card_id = c,
                              !.as_eleven = TRUE] : c \in CardInputs(g)}
        \cup {[NoCall EXCEPT !.op = "enroll_player", !.user_id = u, !.now = n]
                 : n \in ClockReadings(g)}
        \cup {[NoCall EXCEPT !.op = "kick_player", !.user_id = u, !.player_id = k]
                 : k \in 1..NumUsers}

AllIdle == \A t \in Threads : pc[t] = "idle"

\* the game is set up by calls made one after the other: players enroll,
\* the creator closes the enrollment and a first card is drawn
Prepare ==
    /\ AllIdle
    /\ \/ EnrollPlayer
       \/ CloseEnrollment
       \/ PlayerCards(game) = {} /\ DrawCard

\* every thread starts one call
Spawn ==
    /\ AllIdle
    /\ \E cs \in [Threads -> UNION {CallInputs(game, t) : t \in Threads}] :
          /\ \A t \in Threads : cs[t] \in CallInputs(game, t)
          /\ call' = cs
    /\ pc' = [t \in Threads |-> "start"]
    /\ game0' = {game}
    /\ UNCHANGED <<game, invitations, games_lock, pending, ret, aside>>

\* self.user_service.get_user(user_id)?
ThreadGetUser(t) ==
    /\ pc[t] = "start"
    /\ LooksUpFirst(call[t])
    /\ IF get_user(call[t].user_id) = {}
       THEN /\ pc' = [pc EXCEPT ![t] = "done"]
            /\ ret' = [ret EXCEPT ![t] = [r |-> "UserNotFound", view |-> {}]]
       ELSE /\ pc' = [pc EXCEPT ![t] = "ready"]
            /\ UNCHANGED ret
    /\ UNCHANGED <<game, invitations, games_lock, call, pending, game0, aside>>

\* faulty variant: the lock is handed out while another thread holds it
GamesLockFree_Always(lock) == TRUE

\* Mutex::lock returns when no thread holds the lock
GamesLockFree(lock) == lock = 0

\* self.games.lock(), and the engine call's reading of the game
ThreadLock(t) ==
    /\ \/ pc[t] = "ready"
       \/ pc[t] = "start" /\ ~LooksUpFirst(call[t])
    /\ GamesLockFree(games_lock)
    /\ games_lock' = t
    /\ \E o \in Outcomes(game, call[t]) : pending' = [pending EXCEPT ![t] = {o}]
    /\ pc' = [pc EXCEPT ![t] = "locked"]
    /\ UNCHANGED <<game, invitations, call, ret, game0, aside>>

\* the engine call's writes, the return and the drop of the guard
ThreadUnlock(t) ==
    /\ pc[t] = "locked"
    /\ \E o \in pending[t] :
          /\ game' = o.g
          /\ ret' = [ret EXCEPT ![t] = Returned(o)]
    /\ pending' = [pending EXCEPT ![t] = {}]
    /\ games_lock' = 0
    /\ pc' = [pc EXCEPT ![t] = "done"]
    /\ UNCHANGED <<invitations, call, game0, aside>>

NextThreads ==
    \/ Prepare
    \/ Spawn
    \/ \E t \in Threads : ThreadGetUser(t)
    \/ \E t \in Threads : ThreadLock(t)
    \/ \E t \in Threads : ThreadUnlock(t)

SpecThreads == Init /\ [][NextThreads]_vars

(* ------------------------------- locks -------------------------------- *)
\* The calls of the services taken apart into the steps at which they take
\* and drop the Mutexes; what a call does to the data between two such steps
\* is one step.
Lock(m) == [i |-> "lock", m |-> m]
Unlock(m) == [i |-> "unlock", m |-> m]
Do(what) == [i |-> "do", m |-> what]
Return == [i |-> "return", m |-> ""]

\* UserService::register
UserService_register_steps ==
    <<Do("validate"), Lock("email_index"), Do("contains_key"), Lock("users"),
      Do("insert"), Return>>

\* UserService::login
UserService_login_steps ==
    <<Lock("email_index"), Do("index_get"), Lock("users"), Do("login"), Return>>

\* faulty variant: the users map is locked before the email index
UserService_get_user_by_email_steps_UsersFirst ==
    <<Lock("users"), Lock("email_index"), Do("index_get"), Do("users_get"), Return>>

\* UserService::get_user_by_email
UserService_get_user_by_email_steps ==
    <<Lock("email_index"), Do("index_get"), Lock("users"), Do("users_get"), Return>>

\* UserService::get_user
UserService_get_user_steps == <<Lock("users"), Do("users_get"), Return>>

\* GameService::enroll_player, with its call of get_user under the games lock
GameService_enroll_player_steps ==
    <<Lock("games"), Do("enrollment_checks"), Lock("users"), Do("users_get"),
      Unlock("users"), Do("add_player"), Return>>

\* GameService::draw_card, with its call of get_user before the games lock
GameService_draw_card_steps ==
    <<Lock("users"), Do("users_get"), Unlock("users"), Lock("games"), Do("draw_card"),
      Return>>

\* GameService::kick_player
GameService_kick_player_steps == <<Lock("games"), Do("kick_player"), Return>>

\* InvitationService::create
InvitationService_create_steps ==
    <<Lock("games"), Do("can_user_perform"), Unlock("games"), Lock("invitations"),
      Do("insert_invitation"), Return>>

\* InvitationService::get_invitation
InvitationService_get_invitation_steps ==
    <<Lock("invitations"), Do("invitations_get"), Return>>

EmailOps == {"register", "login", "get_user_by_email"}
LockOps == EmailOps \cup {"get_user", "enroll_player", "draw_card", "kick_player",
                          "create", "get_invitation"}

Steps(op) ==
    CASE op = "register" -> UserService_register_steps
      [] op = "login" -> UserService_login_steps
      [] op = "get_user_by_email" -> UserService_get_user_by_email_steps
      [] op = "get_user" -> UserService_get_user_steps
      [] op = "enroll_player" -> GameService_enroll_player_steps
      [] op = "draw_card" -> GameService_draw_card_steps
      [] op = "kick_player" -> GameService_kick_player_steps
      [] op = "create" -> InvitationService_create_steps
      [] op = "get_invitation" -> InvitationService_get_invitation_steps

\* faulty variant: a Mutex is handed out while another thread holds it
MutexFree_Always(l, m) == TRUE

\* Mutex::lock returns when no thread holds the Mutex
MutexFree(l, m) == l[m] = 0

\* the threads that are inside a register call for the same email as thread t
Rivals(t) ==
    {x \in Threads \ {t} : /\ job[x].pc > 0
                           /\ job[x].op = "register"
                           /\ job[t].op = "register"
                           /\ job[x].email = job[t].email}

\* thread t goes on to its next step
Go(t) == job' = [job EXCEPT ![t].pc = @ + 1, ![t].rivals = @ \cup Rivals(t)]

\* thread t has its Result r and goes on to its next step
GoWith(t, r) ==
    job' = [job EXCEPT ![t].pc = @ + 1, ![t].r = r, ![t].rivals = @ \cup Rivals(t)]

\* thread t leaves its call with the error e: its next step is the return
Fail(t, e) ==
    job' = [job EXCEPT ![t].pc = Len(Steps(job[t].op)), ![t].r = e,
                       ![t].rivals = @ \cup Rivals(t)]

\* a thread starts a call
LockCall(t) ==
    /\ job[t].pc = 0
    /\ \E op \in LockOps :
          /\ op = "create" => Len(invitations) < MaxInvitations
          /\ \E email \in (IF op \in EmailOps THEN EmailInputs ELSE {""}) :
                job' = [job EXCEPT ![t] = [op |-> op, pc |-> 1, email |-> email,
                                           r |-> "none", rivals |-> {}]]
    /\ UNCHANGED <<game, invitations, threadVars, limiterVars, userVars, locks>>

\* Mutex::lock
LockTake(t) ==
    /\ job[t].pc > 0
    /\ LET ins == Steps(job[t].op)[job[t].pc]
       IN  /\ ins.i = "lock"
           /\ MutexFree(locks, ins.m)
           /\ locks' = [locks EXCEPT ![ins.m] = t]
    /\ Go(t)
    /\ UNCHANGED <<game, invitations, threadVars, limiterVars, userVars>>

\* the drop of a guard before the call returns: drop(games_lock), and the
\* return of get_user inside another call
LockDrop(t) ==
    /\ job[t].pc > 0
    /\ LET ins == Steps(job[t].op)[job[t].pc]
       IN  /\ ins.i = "unlock"
           /\ locks' = [locks EXCEPT ![ins.m] = 0]
    /\ Go(t)
    /\ UNCHANGED <<game, invitations, threadVars, limiterVars, userVars>>

\* the call returns, with Ok or with an error: the guards it still holds are
\* dropped as they go out of scope.  The caller of register keeps its Result,
\* the Results of the other calls are dropped.
LockReturn(t) ==
    /\ job[t].pc > 0
    /\ Steps(job[t].op)[job[t].pc].i = "return"
    /\ locks' = [m \in Mutexes |-> IF locks[m] = t THEN 0 ELSE locks[m]]
    /\ job' = [job EXCEPT ![t] =
                  IF job[t].op = "register"
                  THEN [job[t] EXCEPT !.pc = 0, !.rivals = @ \cup Rivals(t)]
                  ELSE NoJob]
    /\ UNCHANGED <<game, invitations, threadVars, limiterVars, userVars>>

\* what a call does between taking and dropping Mutexes
LockBody(t) ==
    /\ job[t].pc > 0
    /\ Steps(job[t].op)[job[t].pc].i = "do"
    /\ LET j == job[t]
           what == Steps(j.op)[j.pc].m
           u == ThreadUser(t)
       IN  \/ /\ what = "validate"
              /\ IF ~validate_email(j.email) THEN Fail(t, "ValidationError")
                 ELSE IF ~validate_password(GoodPassword) THEN Fail(t, "WeakPassword")
                 ELSE Go(t)
              /\ UNCHANGED <<game, invitations, users, email_index, credentials>>
           \/ /\ what = "contains_key"
              /\ IF j.email \in DOMAIN email_index THEN Fail(t, "UserAlreadyExists")
                 ELSE Go(t)
              /\ UNCHANGED <<game, invitations, users, email_index, credentials>>
           \/ /\ what = "insert"
              /\ \E h \in hash_password(GoodPassword) :
                    IF h.r # "Ok"
                    THEN /\ Fail(t, "PasswordHashError")
                         /\ UNCHANGED <<users, email_index, credentials>>
                    ELSE LET user_id == NewUserId(Store)
                         IN  /\ users' = MapInsert(users, user_id,
                                                   User_new(user_id, j.email, h.hash))
                             /\ email_index' = MapInsert(email_index, j.email, user_id)
                             /\ credentials' = MapInsert(credentials, user_id,
                                     [email |-> j.email, password |-> GoodPassword])
                             /\ GoWith(t, "Ok")
              /\ UNCHANGED <<game, invitations>>
           \/ /\ what = "index_get"
              /\ IF j.email \in DOMAIN email_index THEN Go(t)
                 ELSE Fail(t, IF j.op = "login" THEN "InvalidCredentials"
                              ELSE "UserNotFound")
              /\ UNCHANGED <<game, invitations, users, email_index, credentials>>
           \/ /\ what = "login"
              /\ \E password \in {GoodPassword, OtherPassword} :
                    LET o == UserService_login(Store, j.email, password, clock)
                    IN  /\ users' = o.store.users
                        /\ GoWith(t, o.r)
              /\ UNCHANGED <<game, invitations, email_index, credentials>>
           \/ /\ what = "users_get"
              /\ IF j.op = "get_user_by_email"
                 THEN IF email_index[j.email] \in DOMAIN users THEN Go(t)
                      ELSE Fail(t, "UserNotFound")
                 ELSE IF get_user(u) # {} THEN Go(t)
                 ELSE Fail(t, "UserNotFound")
              /\ UNCHANGED <<game, invitations, users, email_index, credentials>>
           \/ /\ what = "enrollment_checks"
              /\ LET o == GameService_enroll_player(game, u, clock)
                 IN  IF o.r \in {"EnrollmentClosed", "GameFull"} THEN Fail(t, o.r)
                     ELSE Go(t)
              /\ UNCHANGED <<game, invitations, users, email_index, credentials>>
           \/ /\ what = "add_player"
              /\ LET o == GameService_enroll_player(game, u, clock)
                 IN  /\ game' = o.g
                     /\ GoWith(t, o.r)
              /\ UNCHANGED <<invitations, users, email_index, credentials>>
           \/ /\ what = "draw_card"
              /\ \E o \in GameService_draw_card(game, u) :
                    /\ game' = o.g
                    /\ GoWith(t, o.r)
              /\ UNCHANGED <<invitations, users, email_index, credentials>>
           \/ /\ what = "kick_player"
              /\ \E player_id \in UserIds :
                    LET o == GameService_kick_player(game, u, player_id)
                    IN  /\ game' = o.g
                        /\ GoWith(t, o.r)
              /\ UNCHANGED <<invitations, users, email_index, credentials>>
           \/ /\ what = "can_user_perform"
              /\ IF can_user_perform(game, u) THEN Go(t)
                 ELSE Fail(t, "InsufficientPermissions")
              /\ UNCHANGED <<game, invitations, users, email_index, credentials>>
           \/ /\ what = "insert_invitation"
              /\ \E x \in ExpiryInputs(game) :
                    invitations' = Append(invitations,
                                          GameInvitation_new(u, EmailNames[NumUsers + 1], x))
              /\ GoWith(t, "Ok")
              /\ UNCHANGED <<game, users, email_index, credentials>>
           \/ /\ what = "invitations_get"
              /\ \E id \in 1..MaxInvitations :
                    IF id \in InvitationIds(invitations) THEN Go(t)
                    ELSE Fail(t, "InvitationNotFound")
              /\ UNCHANGED <<game, invitations, users, email_index, credentials>>
    /\ UNCHANGED <<threadVars, limiterVars, changed, locks>>

NextLocks ==
    \/ \E t \in Threads : LockCall(t)
    \/ \E t \in Threads : LockTake(t)
    \/ \E t \in Threads : LockDrop(t)
    \/ \E t \in Threads : LockBody(t)
    \/ \E t \in Threads : LockReturn(t)

SpecLocks == Init /\ [][NextLocks]_vars

(* ----------------------------- properties ----------------------------- *)
AllHands(g) == {g.players[e] : e \in DOMAIN g.players} \cup {g.dealer}

AllDone(g) ==
    \A e \in DOMAIN g.players : g.players[e].state \in {"Standing", "Busted"}

\* email is the player at turn_order[current_turn_index] and is Active
OnTurn(g, email) ==
    /\ g.current_turn_index < Len(g.turn_order)
    /\ g.turn_order[g.current_turn_index + 1] = email
    /\ email \in DOMAIN g.players
    /\ g.players[email].state = "Active"

\* C1. Turn legality: in a game that is not finished, with enrollment closed
\* draw_card(e) and stand(e) succeed only for the Active player on turn and
\* fail with NotPlayerTurn, changing nothing, for everybody else; before
\* close_enrollment they fail with EnrollmentNotClosed, changing nothing.
C1_TurnLegality ==
    ~game.finished =>
        \A e \in Emails :
            \A o \in Game_draw_card(game, e) \cup Game_stand(game, e) :
                /\ (game.enrollment_closed /\ o.r = "Ok") => OnTurn(game, e)
                /\ (game.enrollment_closed /\ ~OnTurn(game, e))
                       => o = Res(game, "NotPlayerTurn")
                /\ ~game.enrollment_closed => o = Res(game, "EnrollmentNotClosed")

\* a player who is not on turn is refused while another player has drawn
C1_Witness ==
    /\ game.enrollment_closed
    /\ ~game.finished
    /\ \E e \in DOMAIN game.players, f \in DOMAIN game.players :
          /\ e # f
          /\ Len(game.players[f].cards_history) > 0
          /\ OnTurn(game, f)
          /\ Game_draw_card(game, e) = {Res(game, "NotPlayerTurn")}
          /\ Game_stand(game, e) = {Res(game, "NotPlayerTurn")}

\* C2. Terminal immutability: once finished is true, no operation changes
\* players, dealer, available_cards or turn_order.
C2_TerminalImmutability ==
    [][game.finished =>
          /\ game'.players = game.players
          /\ game'.dealer = game.dealer
          /\ game'.available_cards = game.available_cards
          /\ game'.turn_order = game.turn_order]_vars

\* C3. All-or-nothing: a facade operation that returns an error leaves the
\* game exactly as it was.
C3_AllOrNothing ==
    /\ \A u \in UserIds :
          /\ \A t \in ClockReadings(game) :
                LET o == GameService_enroll_player(game, u, t)
                IN  o.r # "Ok" => o.g = game
          /\ LET o == GameService_close_enrollment(game, u)
             IN  o.r # "Ok" => o.g = game
          /\ LET o == GameService_finish_game(game, u)
             IN  o.r # "Ok" => o.g = game
          /\ \A o \in GameService_draw_card(game, u) \cup GameService_stand(game, u) :
                o.r # "Ok" => o.g = game
          /\ \A c \in CardInputs(game), v \in BOOLEAN :
                LET o == GameService_set_ace_value(game, u, c, v)
                IN  o.r # "Ok" => o.g = game
    /\ \A k \in UserIds, t \in UserIds :
          LET o == GameService_kick_player(game, k, t)
          IN  o.r # "Ok" => o.g = game

\* cards have been dealt, and enroll_player, kick_player and set_ace_value
\* are refused
C3_Witness ==
    /\ PlayerCards(game) # {}
    /\ \E u \in Registered, t \in ClockReadings(game) :
          GameService_enroll_player(game, u, t).r = "EnrollmentClosed"
    /\ \E k \in Registered, t \in Registered :
          GameService_kick_player(game, k, t).r = "EnrollmentClosed"
    /\ \E u \in Registered, c \in CardInputs(game) :
          GameService_set_ace_value(game, u, c, TRUE).r = CoreError("NotAnAce")

\* a step in which some player took a card or went from Active to Standing:
\* the steps of a successful draw_card or stand
DrawOrStandStep ==
    \E e \in (DOMAIN game.players) \cap (DOMAIN game'.players) :
        \/ Len(game'.players[e].cards_history) > Len(game.players[e].cards_history)
        \/ game.players[e].state = "Active" /\ game'.players[e].state = "Standing"

\* C4. Auto-finish: a successful draw_card or stand that leaves every player
\* Standing or Busted has run dealer play and set finished (dealer.points >= 17
\* or the dealer busted); one that leaves a player Active neither finishes the
\* game nor touches the dealer.
C4_AutoFinish ==
    [][DrawOrStandStep =>
          IF AllDone(game')
          THEN /\ game'.finished
               /\ (game'.dealer.points >= DEALER_STAND_AT \/ game'.dealer.busted)
               /\ game'.dealer.cards_history # <<>>
          ELSE /\ ~game'.finished
               /\ game'.dealer = game.dealer]_vars

\* the game was finished by the stand of the last Active player, after dealer play
C4_Witness ==
    /\ game.finished
    /\ AllDone(game)
    /\ \E e \in DOMAIN game.players : game.players[e].state = "Standing"
    /\ game.dealer.points >= DEALER_STAND_AT

RECURSIVE CardsHeld(_, _)
CardsHeld(g, S) ==
    IF S = {} THEN 0
    ELSE LET e == CHOOSE x \in S : TRUE
         IN  Len(g.players[e].cards_history) + CardsHeld(g, S \ {e})

\* C5. Deck conservation: the cards in the deck, in the players' hands and in
\* the dealer's hand are 52 in all.
C5_DeckConservation ==
    Len(game.available_cards) + CardsHeld(game, DOMAIN game.players)
        + Len(game.dealer.cards_history) = DECK_SIZE

\* players and the dealer hold cards
C5_Witness ==
    /\ CardsHeld(game, DOMAIN game.players) >= 3
    /\ Len(game.dealer.cards_history) >= 2

NoRepeat(s) == \A i, j \in 1..Len(s) : i # j => s[i] # s[j]

\* C6. Card uniqueness: no card is twice in a hand, in two hands, or in a hand
\* and in the deck.
C6_CardUniqueness ==
    /\ \A h \in AllHands(game) : NoRepeat(h.cards_history)
    /\ \A e, f \in DOMAIN game.players :
          e # f => SeqToSet(game.players[e].cards_history)
                       \cap SeqToSet(game.players[f].cards_history) = {}
    /\ \A e \in DOMAIN game.players :
          SeqToSet(game.players[e].cards_history)
              \cap SeqToSet(game.dealer.cards_history) = {}
    /\ \A h \in AllHands(game) :
          SeqToSet(h.cards_history) \cap SeqToSet(game.available_cards) = {}

\* two players and the dealer hold cards taken from both ends of the deck
C6_Witness ==
    /\ \E e, f \in DOMAIN game.players :
          /\ e # f
          /\ game.players[e].cards_history # <<>>
          /\ game.players[f].cards_history # <<>>
    /\ game.dealer.cards_history # <<>>
    /\ 1 \notin SeqToSet(game.available_cards)
    /\ DECK_SIZE \notin SeqToSet(game.available_cards)

RECURSIVE BaseTotal(_)
BaseTotal(s) == IF s = <<>> THEN 0 ELSE CardValue(Head(s)) + BaseTotal(Tail(s))

HeldAces(h) == {c \in SeqToSet(h.cards_history) : IsAce(c)}

PointsConsistent(h) ==
    /\ DOMAIN h.ace_values = HeldAces(h)
    /\ h.points = BaseTotal(h.cards_history)
                      + ACE_BONUS * Cardinality({c \in HeldAces(h) : h.ace_values[c]})

NewAcesCountOne(h, hNext) ==
    \A c \in (DOMAIN hNext.ace_values) \ (DOMAIN h.ace_values) : ~hNext.ace_values[c]

\* C7. Points consistency: for every player and the dealer, points is the sum
\* of the base values of the cards held plus 10 for each held Ace flagged as
\* eleven; ace_values has an entry exactly for the held Aces, and the entry of
\* an Ace is false when the Ace is drawn.
C7_PointsConsistency ==
    /\ [](\A h \in AllHands(game) : PointsConsistent(h))
    /\ [][/\ \A e \in (DOMAIN game.players) \cap (DOMAIN game'.players) :
                NewAcesCountOne(game.players[e], game'.players[e])
          /\ NewAcesCountOne(game.dealer, game'.dealer)]_vars

\* a player holds an Ace counted as eleven next to another card
C7_Witness ==
    \E e \in DOMAIN game.players :
        /\ \E c \in DOMAIN game.players[e].ace_values : game.players[e].ace_values[c]
        /\ Len(game.players[e].cards_history) >= 2
        /\ game.players[e].points = BaseTotal(game.players[e].cards_history) + ACE_BONUS

\* C8. Bust coupling: for every player and the dealer, busted is true exactly
\* when points > 21, and busted implies state Busted.
C8_BustCoupling ==
    \A h \in AllHands(game) :
        /\ h.busted <=> h.points > BUST_LIMIT
        /\ h.busted => h.state = "Busted"

\* a player busted by a draw, and a dealer who stopped without busting
C8_Witness ==
    /\ \E e \in DOMAIN game.players :
          game.players[e].busted /\ game.players[e].ace_values = EmptyAceValues
    /\ game.dealer.points >= DEALER_STAND_AT
    /\ ~game.dealer.busted
    /\ game.dealer.state = "Standing"

\* C9. busted is one-way: once a player's busted flag is true no later
\* operation makes it false, so state is Busted exactly when busted is true.
C9_BustedOneWay ==
    /\ [][\A e \in (DOMAIN game.players) \cap (DOMAIN game'.players) :
             game.players[e].busted => game'.players[e].busted]_vars
    /\ [](\A e \in DOMAIN game.players :
             game.players[e].state = "Busted" <=> game.players[e].busted)

\* C10. A busted player cannot win: whatever order calculate_results visits
\* the players in, every player whose state is Busted has outcome Busted and
\* is neither the winner nor among the tied players.
C10_BustedCannotWin ==
    \A order \in VisitOrders(game) :
        LET res == calculate_results(game, order)
        IN  \A e \in DOMAIN game.players :
                game.players[e].state = "Busted" =>
                    /\ res.player_results[e].outcome = "Busted"
                    /\ e \notin res.winner
                    /\ e \notin SeqToSet(res.tied_players)

\* C11. Creator invariance: creator_id never changes; in every state the
\* creator is a participant with role Creator, nobody else has that role, and
\* the creator's email is a key of players.
C11_CreatorInvariance ==
    /\ [][game'.creator_id = game.creator_id]_vars
    /\ [](/\ game.creator_id \in DOMAIN game.participants
          /\ game.participants[game.creator_id].role = "Creator"
          /\ \A u \in DOMAIN game.participants :
                u # game.creator_id => game.participants[u].role # "Creator"
          /\ game.participants[game.creator_id].email \in DOMAIN game.players)

\* another user enrolled as a participant and the game was played to its end
C11_Witness ==
    /\ \E u \in DOMAIN game.participants :
          u # game.creator_id /\ game.participants[u].role = "Player"
    /\ game.finished
    /\ game.dealer.cards_history # <<>>

\* user_id is a participant of the game with role Creator
HoldsCreatorRole(g, user_id) ==
    /\ user_id \in DOMAIN g.participants
    /\ g.participants[user_id].role = "Creator"

C13_KickCreatorAnyKicker ==
    \A k \in UserIds :
        GameService_kick_player(game, k, game.creator_id)
            = Res(game, CoreError("CannotKickCreator"))

\* C13, amended: kick_player whose target is the creator fails whoever the
\* kicker is and removes nobody; the error is CannotKickCreator when the
\* kicker is the creator and InsufficientPermissions when the kicker is any
\* other user.
C13_KickCreatorFails ==
    \A k \in UserIds :
        GameService_kick_player(game, k, game.creator_id)
            = Res(game, IF k = game.creator_id THEN CoreError("CannotKickCreator")
                        ELSE "InsufficientPermissions")

\* during enrollment, with another user enrolled, the creator and that user
\* both try to kick the creator
C13_Witness ==
    /\ ~game.enrollment_closed
    /\ ~game.finished
    /\ GameService_kick_player(game, game.creator_id, game.creator_id).r
           = CoreError("CannotKickCreator")
    /\ \E k \in DOMAIN game.participants :
          /\ k # game.creator_id
          /\ GameService_kick_player(game, k, game.creator_id).r = "InsufficientPermissions"
          /\ GameService_kick_player(game, game.creator_id, k).r = "Ok"

\* C14. In every state with finished true, the dealer has played
\* (dealer.points >= 17 or the dealer busted) or all players are busted,
\* whether the game finished by itself or by the creator's finish_game.
C14_FinishedDealerPlayed ==
    game.finished =>
        \/ game.dealer.points >= DEALER_STAND_AT
        \/ game.dealer.busted
        \/ \A e \in DOMAIN game.players : game.players[e].busted

\* C15. From the close of enrollment until the game is finished turn_order
\* never changes: no step changes turn_order or the set of players, and every
\* enroll_player, add_player_to_game and kick_player fails and leaves the game
\* as it was.
C15_TurnOrderStable ==
    /\ [][(game.enrollment_closed /\ ~game.finished) =>
             /\ game'.turn_order = game.turn_order
             /\ DOMAIN game'.players = DOMAIN game.players]_vars
    /\ []((game.enrollment_closed /\ ~game.finished) =>
             \A u \in UserIds :
                /\ \A t \in ClockReadings(game) :
                      LET o == GameService_enroll_player(game, u, t)
                      IN  o.r # "Ok" /\ o.g = game
                /\ LET o == GameService_add_player_to_game(game, u)
                   IN  o.r # "Ok" /\ o.g = game
                /\ \A k \in UserIds :
                      LET o == GameService_kick_player(game, k, u)
                      IN  o.r # "Ok" /\ o.g = game)

\* play is under way with a second user enrolled: enroll_player and
\* add_player_to_game are refused, and so is the creator's kick of that user
C15_Witness ==
    /\ game.enrollment_closed
    /\ ~game.finished
    /\ PlayerCards(game) # {}
    /\ \E u \in DOMAIN game.participants :
          /\ u # game.creator_id
          /\ \A t \in ClockReadings(game) :
                GameService_enroll_player(game, u, t).r = "EnrollmentClosed"
          /\ GameService_add_player_to_game(game, u).r = CoreError("InvalidPlayerCount")
          /\ GameService_kick_player(game, game.creator_id, u).r = "EnrollmentClosed"

\* t is s with the element at one position taken out
OneRemoved(s, t) ==
    \E i \in 1..Len(s) :
        t = [k \in 1..(Len(s) - 1) |-> IF k < i THEN s[k] ELSE s[k + 1]]

C17_ParticipantsMatchPlayers ==
    /\ \A u \in DOMAIN game.participants :
          game.participants[u].email \in DOMAIN game.players
    /\ \A e \in DOMAIN game.players :
          Cardinality({u \in DOMAIN game.participants :
                          game.participants[u].email = e}) = 1

\* C18. A game never has more than 10 players: with 10 players and the
\* enrollment open, enroll_player for one more user fails with GameFull and
\* changes nothing.
C18_GameFull ==
    /\ Cardinality(DOMAIN game.players) <= MAX_PLAYERS
    /\ Cardinality(DOMAIN game.players) = MAX_PLAYERS =>
          \A u \in Registered, t \in ClockReadings(game) :
              (EmailNames[u] \notin DOMAIN game.players /\ is_enrollment_open(game, t))
                  => GameService_enroll_player(game, u, t) = Res(game, "GameFull")

\* ten players, enrollment open, and an eleventh user who is refused
C18_Witness ==
    /\ Cardinality(DOMAIN game.players) = MAX_PLAYERS
    /\ ~game.enrollment_closed
    /\ ~game.finished
    /\ \E u \in Registered :
          /\ EmailNames[u] \notin DOMAIN game.players
          /\ GameService_enroll_player(game, u, game.enrollment_start_time).r = "GameFull"

\* set_ace_value(a, true) followed by set_ace_value(a, false) by player e
\* succeeds twice and leaves e's points as they were in g
AceRoundTrip(g, e, a) ==
    LET first == Game_set_ace_value(g, e, a, TRUE)
        second == Game_set_ace_value(first.g, e, a, FALSE)
    IN  /\ first.r = "Ok"
        /\ second.r = "Ok"
        /\ second.g.players[e].points = g.players[e].points

\* C19 as stated: for any Ace held by an Active, not busted player of a game
\* that is not finished, set_ace_value(a, true); set_ace_value(a, false)
\* leaves the player's points equal to their value before the two calls.
C19_AceRoundTripAnyAce ==
    ~game.finished =>
        \A e \in DOMAIN game.players :
            (game.players[e].state = "Active" /\ ~game.players[e].busted) =>
                \A a \in HeldAces(game.players[e]) : AceRoundTrip(game, e, a)

\* C19, amended: the same for any such Ace that counts as 1 before the two
\* calls.
C19_AceRoundTrip ==
    ~game.finished =>
        \A e \in DOMAIN game.players :
            (game.players[e].state = "Active" /\ ~game.players[e].busted) =>
                \A a \in HeldAces(game.players[e]) :
                    ~game.players[e].ace_values[a] => AceRoundTrip(game, e, a)

\* an Active player holds an Ace counted as 1 next to other cards, and
\* counting it as eleven takes the player over 21
C19_Witness ==
    /\ ~game.finished
    /\ \E e \in DOMAIN game.players :
          /\ game.players[e].state = "Active"
          /\ ~game.players[e].busted
          /\ \E a \in HeldAces(game.players[e]) :
                /\ ~game.players[e].ace_values[a]
                /\ Game_set_ace_value(game, e, a, TRUE).g.players[e].busted
                /\ AceRoundTrip(game, e, a)

\* C20. calculate_results gives every player, and nobody else, one outcome:
\* Busted if the player is busted; otherwise, with dealer_score 0 for a busted
\* dealer and dealer.points if not, Won if dealer_score = 0 or the player's
\* points are above dealer_score, Push if they equal a dealer_score that is
\* not 0, Lost otherwise.
C20_Outcomes ==
    \A order \in VisitOrders(game) :
        LET res == calculate_results(game, order)
            ds == IF game.dealer.busted THEN 0 ELSE game.dealer.points
        IN  /\ DOMAIN res.player_results = DOMAIN game.players
            /\ "dealer" \notin DOMAIN res.player_results
            /\ \A e \in DOMAIN game.players :
                  LET p == game.players[e]
                      outcome == res.player_results[e].outcome
                  IN  /\ outcome \in {"Busted", "Won", "Push", "Lost"}
                      /\ outcome = "Busted" <=> p.busted
                      /\ outcome = "Won" <=> (~p.busted /\ (ds = 0 \/ p.points > ds))
                      /\ outcome = "Push" <=> (~p.busted /\ p.points = ds /\ ds # 0)
                      /\ outcome = "Lost" <=> (~p.busted /\ ds # 0 /\ p.points < ds)

\* a finished game whose dealer stands without busting, one player level with
\* the dealer and another below
C20_Witness ==
    /\ game.finished
    /\ game.dealer.state = "Standing"
    /\ ~game.dealer.busted
    /\ \E order \in VisitOrders(game) :
          \E e, f \in DOMAIN game.players :
              /\ calculate_results(game, order).player_results[e].outcome = "Push"
              /\ calculate_results(game, order).player_results[f].outcome = "Lost"

\* the players calculate_results gives outcome Won in game g
WonPlayers(g) == {e \in DOMAIN g.players : PlayerOutcome(g, e) = "Won"}

\* the highest points among the players of S, 0 when S is empty
MaxPoints(g, S) ==
    IF S = {} THEN 0
    ELSE CHOOSE m \in {g.players[e].points : e \in S} :
             \A e \in S : g.players[e].points <= m

\* C21. In calculate_results highest_score is the maximum points among the
\* players with outcome Won (0 if none), winner is the single Won player at
\* that score (none when two or more share it), tied_players holds all Won
\* players at highest_score when they are two or more and is empty otherwise,
\* whatever the order in which the players are visited.
C21_WinnerRule ==
    \A order \in VisitOrders(game) :
        LET res == calculate_results(game, order)
            hs == MaxPoints(game, WonPlayers(game))
            top == {e \in WonPlayers(game) : game.players[e].points = hs}
        IN  /\ res.highest_score = hs
            /\ res.winner = (IF Cardinality(top) = 1 THEN top ELSE {})
            /\ SeqToSet(res.tied_players) = (IF Cardinality(top) >= 2 THEN top ELSE {})

\* the orders in which the threads' calls can be made one after the other
ThreadOrders ==
    {o \in [1..NumThreads -> Threads] : \A i, j \in 1..NumThreads : i # j => o[i] # o[j]}

\* made one after the other from game g in the given order, from the k-th on,
\* the calls can return what the threads got and end in the present game
RECURSIVE SequentialRun(_, _, _)
SequentialRun(g, order, k) ==
    IF k > NumThreads THEN g = game
    ELSE \E o \in Outcomes(g, call[order[k]]) :
            /\ Returned(o) = ret[order[k]]
            /\ SequentialRun(o.g, order, k + 1)

\* C22. Concurrent facade calls on one game are serialized: when the calls
\* of all threads have returned, their return values and the game are those
\* of the same calls made one after the other in some order; at every moment
\* the deck is conserved, no card is held twice and the turn index is in
\* range.
C22_Serialized ==
    /\ (\A t \in Threads : pc[t] = "done") =>
          \E order \in ThreadOrders : \E g \in game0 : SequentialRun(g, order, 1)
    /\ C5_DeckConservation
    /\ C6_CardUniqueness
    /\ game.enrollment_closed => game.current_turn_index < Len(game.turn_order)

\* two players asked for a card at the same time: the one on turn got it,
\* the other was told NotPlayerTurn
C22_Witness ==
    /\ \A t \in Threads : pc[t] = "done"
    /\ \E t, u \in Threads :
          /\ t # u
          /\ call[t].op = "draw_card"
          /\ call[u].op = "draw_card"
          /\ ret[t].r = "Ok"
          /\ ret[u].r = "NotPlayerTurn"
          /\ EmailNames[call[u].user_id] \in DOMAIN game.players

\* C23: for every key, the calls check_rate_limit accepted within any window
\* of 60 seconds are at most requests_per_minute; a key never used before gets
\* requests_per_minute immediate calls through and the next one is refused
\* with RateLimitExceeded (three and the fourth when the limit is 3); and a
\* call made with one key changes neither the outcome nor the queue of a
\* call made with another key.
AcceptedInWindow(key, from) ==
    Cardinality({i \in 1..Len(accepted[key]) :
                    /\ from <= accepted[key][i]
                    /\ accepted[key][i] <= from + RATE_WINDOW})

RECURSIVE Burst(_, _, _, _)
Burst(l, key, now, n) ==
    IF n = 0 THEN <<>>
    ELSE LET o == check_rate_limit(l, key, now)
         IN  <<o.r>> \o Burst(o.l, key, now, n - 1)

C23_RateLimit ==
    /\ \A key \in LimiterKeys : \A from \in 0..clock :
          AcceptedInWindow(key, from) <= limiter.requests_per_minute
    /\ \A key \in LimiterKeys \ DOMAIN limiter.requests :
          Burst(limiter, key, clock, limiter.requests_per_minute + 1) =
              [i \in 1..(limiter.requests_per_minute + 1) |->
                  IF i <= limiter.requests_per_minute THEN "Ok" ELSE "RateLimitExceeded"]
    /\ \A key \in LimiterKeys : \A other \in LimiterKeys \ {key} :
          LET alone == check_rate_limit(limiter, key, clock)
              after == check_rate_limit(check_rate_limit(limiter, other, clock).l, key, clock)
          IN  /\ after.r = alone.r
              /\ after.l.requests[key] = alone.l.requests[key]

\* limit 3: a key that was accepted four times over more than a minute is
\* refused now, its last three accepted calls being within the minute, while
\* the other key, never used, is let through
C23_Witness ==
    /\ limiter.requests_per_minute = 3
    /\ \E key \in LimiterKeys : \E other \in LimiterKeys \ {key} :
          /\ Len(accepted[key]) = 4
          /\ accepted[key][1] < clock - RATE_WINDOW
          /\ check_rate_limit(limiter, key, clock).r = "RateLimitExceeded"
          /\ other \notin DOMAIN limiter.requests
          /\ check_rate_limit(limiter, other, clock).r = "Ok"

\* C24. accept succeeds, setting the status Accepted, only when the
\* invitation is Pending and the time is not past expires_at; when the time is
\* past expires_at it sets the status Expired and fails with InvitationExpired.
C24_AcceptPendingOnly ==
    \A id \in InvitationIds(invitations) :
        LET inv == invitations[id]
            o == InvitationService_accept(invitations, id, clock)
        IN  /\ o.r = "Ok" => /\ inv.status = "Pending"
                             /\ ~(clock > inv.expires_at)
                             /\ o.invs[id].status = "Accepted"
            /\ clock > inv.expires_at => /\ o.r = "InvitationExpired"
                                         /\ o.invs[id].status = "Expired"

\* C25. Terminal states are immutable: once an invitation is Accepted, Declined
\* or Expired no accept, decline, get_pending_for_user or cleanup_expired call
\* changes its status, and decline on an invitation that is not Pending fails.
TerminalStatus == {"Accepted", "Declined", "Expired"}

C25_TerminalImmutable ==
    /\ [](\A id \in InvitationIds(invitations) :
             invitations[id].status # "Pending" =>
                 InvitationService_decline(invitations, id).r # "Ok")
    /\ [][\A id \in InvitationIds(invitations) :
             invitations[id].status \in TerminalStatus =>
                 invitations'[id].status = invitations[id].status]_vars

\* C26. Register/login round trip: after register(email, pw) succeeded,
\* login(email, pw) succeeds, returns the user with the id register returned
\* and stamps last_login, for as long as the account is active and its
\* password has not been changed.
C26_RegisterLoginRoundTrip ==
    \A id \in DOMAIN credentials :
        (users[id].is_active /\ id \notin changed) =>
            LET o == UserService_login(Store, credentials[id].email,
                                       credentials[id].password, clock)
            IN  /\ o.r = "Ok"
                /\ o.user # None
                /\ o.user[1].id = id
                /\ o.user[1].last_login = Some(clock)
                /\ o.store.users[id].last_login = Some(clock)

\* two registered accounts: one, active and with the password it registered
\* with, has logged in at a later instant; the other has changed its password
C26_Witness ==
    \E id \in DOMAIN credentials : \E other \in DOMAIN credentials \ {id} :
        /\ users[id].is_active
        /\ id \notin changed
        /\ clock > 0
        /\ users[id].last_login = Some(clock)
        /\ other \in changed

\* C27. A failed login does not reveal whether the email is registered: login
\* on a registered email with any password other than the account's, the
\* empty password included and whatever is_active, returns InvalidCredentials,
\* the result of login on an email that is not registered.
C27_NoEnumeration ==
    \A email \in DOMAIN email_index : \A password \in PasswordInputs :
        password # users[email_index[email]].password_hash.password =>
            /\ UserService_login(Store, email, password, clock).r = "InvalidCredentials"
            /\ \A unknown \in EmailInputs \ DOMAIN email_index :
                  UserService_login(Store, unknown, password, clock).r =
                      UserService_login(Store, email, password, clock).r

\* C28. The enrollment timeout is advisory: while enrollment_closed is false,
\* enroll_player, add_player_to_game, close_enrollment, draw_card and stand
\* return after the enrollment window has elapsed what they return before,
\* with the same game; only get_open_games stops listing the game.
C28_TimeoutAdvisory ==
    LET before == game.enrollment_start_time
        after == game.enrollment_start_time + game.enrollment_timeout_seconds
    IN  ~game.enrollment_closed =>
            /\ \A u \in UserIds :
                  GameService_enroll_player(game, u, after) =
                      GameService_enroll_player(game, u, before)
            /\ ~game.finished =>
                  /\ GameService_get_open_games(game, before) = {game}
                  /\ GameService_get_open_games(game, after) = {}

\* the seat the turn goes to from seat i: the first seat after i, in cyclic
\* order, whose player is Active, and i itself when no other player is Active
SeatActive(g, i) ==
    /\ g.turn_order[i + 1] \in DOMAIN g.players
    /\ g.players[g.turn_order[i + 1]].state = "Active"

NextActiveSeat(g, i) ==
    LET n == Len(g.turn_order)
        steps == {k \in 1..(n - 1) : SeatActive(g, (i + k) % n)}
    IN  IF steps = {} THEN i
        ELSE (i + (CHOOSE k \in steps : \A j \in steps : k <= j)) % n

OthersActive(g, email) ==
    \E e \in DOMAIN g.players \ {email} : g.players[e].state = "Active"

\* C29. After a successful draw_card or stand, current_turn_index is the first
\* index after the previous one, in cyclic order, whose player is Active, and
\* it stays at the previous index when no other player is Active; after a
\* successful draw_card by a player while another player is Active, an
\* immediate second draw_card by the same player fails with NotPlayerTurn.
C29_TurnAdvance ==
    \A u \in SeatUsers :
        /\ \A d \in GameService_draw_card(game, u) \cup GameService_stand(game, u) :
              d.r = "Ok" =>
                  d.g.current_turn_index = NextActiveSeat(d.g, game.current_turn_index)
        /\ \A d \in GameService_draw_card(game, u) :
              (d.r = "Ok" /\ OthersActive(d.g, EmailNames[u])) =>
                  \A again \in GameService_draw_card(d.g, u) : again.r = "NotPlayerTurn"

\* three seats, the turn at the first: its player draws and stays Active, the
\* second seat's player is no longer Active, and the turn goes to the third
C29_Witness ==
    /\ Len(game.turn_order) = 3
    /\ game.current_turn_index = 0
    /\ ~SeatActive(game, 1)
    /\ \E u \in SeatUsers : \E d \in GameService_draw_card(game, u) :
          /\ d.r = "Ok"
          /\ d.g.players[EmailNames[u]].state = "Active"
          /\ d.g.current_turn_index = 2
          /\ ~d.g.finished

\* the dealer's hand after a completed dealer play
RECURSIVE FaceValues(_)
FaceValues(cards) ==
    IF cards = <<>> THEN 0 ELSE CardValue(Head(cards)) + FaceValues(Tail(cards))

DealerDone(dealer) ==
    LET n == Len(dealer.cards_history)
    IN  /\ n >= 1
        /\ dealer.points >= DEALER_STAND_AT
        /\ dealer.points - CardValue(dealer.cards_history[n]) < DEALER_STAND_AT
        /\ dealer.points <= 26
        /\ dealer.state = (IF dealer.points <= BUST_LIMIT THEN "Standing" ELSE "Busted")
        /\ dealer.busted = (dealer.points > BUST_LIMIT)
        /\ dealer.points = FaceValues(dealer.cards_history)

CallerEmails == {EmailNames[u] : u \in 1..NumUsers}

AceFailures == {"GameAlreadyFinished", "PlayerNotInGame", "CardNotFound", "NotAnAce"}

\* C31. set_ace_value(e, card, v) succeeds exactly when the game is not
\* finished, e is a player and card is an Ace in e's hand, whatever the phase,
\* the turn and e's state; on success it changes only e's ace flag, points,
\* busted and state, leaving current_turn_index, available_cards, the dealer,
\* the other players, enrollment_closed and finished as they were; its
\* failures (GameAlreadyFinished, PlayerNotInGame, CardNotFound, NotAnAce)
\* change nothing.
C31_SetAceFrame ==
    \A e \in CallerEmails, c \in CardInputs(game), v \in BOOLEAN :
        LET o == Game_set_ace_value(game, e, c, v)
            allowed == /\ ~game.finished
                       /\ e \in DOMAIN game.players
                       /\ c \in SeqToSet(game.players[e].cards_history)
                       /\ IsAce(c)
        IN  /\ (o.r = "Ok") <=> allowed
            /\ ~allowed => (o.r \in AceFailures /\ o.g = game)
            /\ allowed =>
                  LET was == game.players[e]
                      is == o.g.players[e]
                  IN  /\ o.g = [game EXCEPT !.players[e] = is]
                      /\ is = [was EXCEPT !.ace_values = is.ace_values,
                                          !.points = is.points,
                                          !.busted = is.busted,
                                          !.state = is.state]
                      /\ is.ace_values = [was.ace_values EXCEPT ![c] = v]

\* in a game that is not finished a player who stood, and who is not on
\* turn, changes an Ace and the points change with it
C31_Witness ==
    /\ ~game.finished
    /\ \E e \in CallerEmails : \E c \in CardInputs(game) :
          /\ e \in DOMAIN game.players
          /\ game.players[e].state = "Standing"
          /\ ~can_player_act(game, e)
          /\ Game_set_ace_value(game, e, c, TRUE).r = "Ok"
          /\ Game_set_ace_value(game, e, c, TRUE).g.players[e].points # game.players[e].points

\* the sequence without the entries equal to e, the others in their order
Without(seq, e) ==
    LET keep(x) == x # e
    IN  SelectSeq(seq, keep)

\* a successful kick_player(k, t) took t out of participants, players and
\* turn_order and changed nothing else
KickRemovesTargetOnly(g, t, after) ==
    /\ t \in DOMAIN g.participants
    /\ LET e == g.participants[t].email
       IN  /\ e \in DOMAIN g.players
           /\ DOMAIN after.participants = DOMAIN g.participants \ {t}
           /\ DOMAIN after.players = DOMAIN g.players \ {e}
           /\ \A u \in DOMAIN after.participants : after.participants[u] = g.participants[u]
           /\ \A x \in DOMAIN after.players : after.players[x] = g.players[x]
           /\ after.turn_order = Without(g.turn_order, e)
           /\ Len(after.turn_order) = Len(g.turn_order) - 1
           /\ after = [g EXCEPT !.participants = after.participants,
                                !.players = after.players,
                                !.turn_order = after.turn_order]

\* C32 as stated: a successful kick_player removes the target from
\* participants, players and turn_order and changes nothing else; once
\* enrollment is closed kick_player fails with EnrollmentClosed and changes
\* nothing.
C32_KickFrameClosedError ==
    \A k \in UserIds, t \in UserIds :
        LET o == GameService_kick_player(game, k, t)
        IN  /\ o.r = "Ok" => KickRemovesTargetOnly(game, t, o.g)
            /\ game.enrollment_closed => (o.r = "EnrollmentClosed" /\ o.g = game)

\* C32, amended: a successful kick_player removes the target from
\* participants, players and turn_order and changes nothing else; once
\* enrollment is closed kick_player fails and changes nothing, with
\* EnrollmentClosed when the kicker is the creator and the target is not, with
\* InsufficientPermissions when the kicker is not the creator and with
\* CannotKickCreator when the creator kicks themself.
C32_KickFrame ==
    \A k \in UserIds, t \in UserIds :
        LET o == GameService_kick_player(game, k, t)
        IN  /\ o.r = "Ok" => KickRemovesTargetOnly(game, t, o.g)
            /\ game.enrollment_closed =>
                  /\ o.g = game
                  /\ o.r = (IF k # game.creator_id THEN "InsufficientPermissions"
                            ELSE IF t = game.creator_id THEN CoreError("CannotKickCreator")
                            ELSE "EnrollmentClosed")

\* the creator kicks the second of two enrolled players while enrollment is
\* open: the call succeeds and the creator alone is left, first in turn_order
C32_Witness ==
    /\ ~game.enrollment_closed
    /\ Len(game.turn_order) = 2
    /\ \E t \in UserIds :
          LET o == GameService_kick_player(game, game.creator_id, t)
          IN  /\ o.r = "Ok"
              /\ Len(o.g.turn_order) = 1
              /\ DOMAIN o.g.participants = {game.creator_id}

\* C33. Play never stalls: in every reachable state with enrollment closed,
\* the game not finished and at least one Active player, the player at
\* turn_order[current_turn_index] is Active, so that some player's draw_card
\* or stand is accepted.
C33_NeverStalls ==
    (game.enrollment_closed /\ ~game.finished /\ ~AllDone(game)) =>
        /\ \E e \in DOMAIN game.players : OnTurn(game, e)
        /\ \E u \in UserIds :
              \/ \E d \in GameService_draw_card(game, u) : d.r = "Ok"
              \/ \E d \in GameService_stand(game, u) : d.r = "Ok"

\* C34. In every reachable state with enrollment closed in which every player
\* is Standing or Busted, the game is finished and the dealer has played,
\* whichever operation made the last Active player non-Active.
C34_AllDoneFinished ==
    (game.enrollment_closed /\ AllDone(game)) =>
        /\ game.finished
        /\ game.dealer.cards_history # <<>>
        /\ (game.dealer.points >= DEALER_STAND_AT \/ game.dealer.busted)

\* C35. While enrollment is closed and the game is not finished,
\* current_turn_index is changed only by a successful draw_card or stand:
\* every other successful operation, a repeated close_enrollment by the
\* creator and set_ace_value included, leaves current_turn_index unchanged.
C35_TurnIndexFrame ==
    (game.enrollment_closed /\ ~game.finished) =>
        \A u \in UserIds :
            /\ \A o \in {GameService_close_enrollment(game, u),
                          GameService_finish_game(game, u),
                          GameService_add_player_to_game(game, u)}
                         \cup {GameService_enroll_player(game, u, t) : t \in ClockReadings(game)}
                         \cup {GameService_kick_player(game, u, t) : t \in UserIds}
                         \cup {GameService_set_ace_value(game, u, c, v) :
                                   c \in CardInputs(game), v \in BOOLEAN} :
                  o.r = "Ok" => o.g.current_turn_index = game.current_turn_index

\* the players not yet Standing or Busted
ActivePlayers(g) == {e \in DOMAIN g.players : g.players[e].state = "Active"}

\* C36. Play terminates: after close_enrollment, when only draw_card and
\* stand are called and the Active player on turn always eventually calls one
\* of them, the game reaches finished; the successful calls are bounded
\* because each successful draw strictly increases the drawer's points and
\* adds a card to their hand, no call makes a player Active again, and each
\* stand takes one player out of the Active ones. While play is going on the
\* player on turn can always make a successful call.
C36_PlayTerminates ==
    /\ game.enrollment_closed ~> game.finished
    /\ [](TurnPending =>
             \E u \in PlayUsers : \A o \in GameService_stand(game, u) :
                 o.r = "Ok" /\ o.g # game)
    /\ [][game.enrollment_closed =>
             /\ ActivePlayers(game') \subseteq ActivePlayers(game)
             /\ \A e \in DOMAIN game.players :
                   /\ game'.players[e].points >= game.players[e].points
                   /\ Len(game'.players[e].cards_history) > Len(game.players[e].cards_history)
                          => game'.players[e].points > game.players[e].points
             /\ \/ \E e \in DOMAIN game.players :
                       Len(game'.players[e].cards_history) > Len(game.players[e].cards_history)
                \/ ActivePlayers(game') # ActivePlayers(game)]_vars

\* a game of two players finished after one of them drew until busted, with
\* seven cards, and the other stood
C36_Witness ==
    /\ game.finished
    /\ Cardinality(DOMAIN game.players) = 2
    /\ \E e \in DOMAIN game.players :
          /\ game.players[e].state = "Busted"
          /\ Len(game.players[e].cards_history) >= 7
    /\ \E e \in DOMAIN game.players : game.players[e].state = "Standing"

\* the base values (an Ace counting 1) of the hands of the players in S
RECURSIVE HandsBase(_, _)
HandsBase(g, S) ==
    IF S = {} THEN 0
    ELSE LET e == CHOOSE x \in S : TRUE
         IN  BaseTotal(g.players[e].cards_history) + HandsBase(g, S \ {e})

\* C37. DeckEmpty is unreachable: the deck of Game::new holds 52 cards whose
\* base values sum to 340 and the cards' base values are conserved; a game
\* has at most 10 players; a hand that may still draw has a base total of at
\* most 21 and no hand exceeds 31; the dealer takes a card only below 17 and
\* never exceeds 26; so the cards left in the deck are worth at least
\* 340 - 31 * players - 26 > 0, available_cards is never empty, and neither
\* draw_card nor the dealer play started by draw_card or stand ever answers
\* DeckEmpty.
C37_DeckNeverEmpty ==
    LET n == Cardinality(DOMAIN game.players)
        deck == game.available_cards
        dealerBase == BaseTotal(game.dealer.cards_history)
    IN  /\ BaseTotal([k \in 1..DECK_SIZE |-> k]) = 340
        /\ BaseTotal(deck) + HandsBase(game, DOMAIN game.players) + dealerBase = 340
        /\ n <= MAX_PLAYERS
        /\ \A e \in DOMAIN game.players :
              LET base == BaseTotal(game.players[e].cards_history)
              IN  /\ base <= BUST_LIMIT + 10
                  /\ base <= game.players[e].points
                  /\ (\E o \in Game_draw_card(game, e) : o.r = "Ok") => base <= BUST_LIMIT
        /\ dealerBase <= DEALER_STAND_AT - 1 + 10
        /\ dealerBase <= game.dealer.points
        /\ (BUST_LIMIT + 10) * (MAX_PLAYERS - 1) + BUST_LIMIT < 340
        /\ (BUST_LIMIT + 10) * MAX_PLAYERS + DEALER_STAND_AT - 1 < 340
        /\ BaseTotal(deck) >= 340 - (BUST_LIMIT + 10) * n - (DEALER_STAND_AT - 1 + 10)
        /\ deck # <<>>
        /\ \A u \in PlayUsers :
              /\ \A o \in GameService_draw_card(game, u) : o.r # "DeckEmpty"
              /\ \A o \in GameService_stand(game, u) : o.r # CoreError("DeckEmpty")

\* a finished game in which a player busted with a base total of 31 and the
\* dealer with one of 26
C37_Witness ==
    /\ game.finished
    /\ \E e \in DOMAIN game.players :
          /\ game.players[e].busted
          /\ BaseTotal(game.players[e].cards_history) = BUST_LIMIT + 10
    /\ BaseTotal(game.dealer.cards_history) = DEALER_STAND_AT - 1 + 10

\* the Mutexes thread t holds
Held(t) == {m \in Mutexes : locks[m] = t}

\* thread t is inside a call
InCall(t) == job[t].pc > 0

\* the Mutex thread t is about to take, if its next step is a lock
Wanted(t) ==
    IF InCall(t) /\ Steps(job[t].op)[job[t].pc].i = "lock"
    THEN {Steps(job[t].op)[job[t].pc].m}
    ELSE {}

\* thread t can take its next step
Runnable(t) == InCall(t) /\ \A m \in Wanted(t) : locks[m] = 0

\* C38. No interleaving of concurrent identity, game and invitation calls
\* deadlocks: whenever threads are inside calls one of them can take its next
\* step; a thread takes email_index, games and invitations only while it
\* holds no Mutex, and users only while it holds nothing or just email_index
\* or just games, so users is the innermost lock and the games lock is gone
\* before the invitations lock is taken; and a thread that is in no call,
\* having returned Ok or an error, holds no Mutex.
C38_NoDeadlock ==
    /\ (\E t \in Threads : InCall(t)) => \E t \in Threads : Runnable(t)
    /\ \A t \in Threads :
          /\ \A m \in Wanted(t) :
                IF m = "users"
                THEN Held(t) \in {{}, {"email_index"}, {"games"}}
                ELSE Held(t) = {}
          /\ ~InCall(t) => Held(t) = {}
          /\ Cardinality(Held(t)) <= 2

\* a thread inside enroll_player holds games and users while the other, in a
\* call that returned no error so far, holds email_index and waits for users
C38_Witness ==
    \E t \in Threads, x \in Threads :
        /\ Held(t) = {"games", "users"}
        /\ Held(x) = {"email_index"}
        /\ Wanted(x) = {"users"}
        /\ ~Runnable(x)

\* the successful register calls made with the email e
Registrations(e) == {id \in DOMAIN credentials : credentials[id].email = e}

\* C39. Email uniqueness under concurrency: register succeeds at most once
\* per email; a register call with a valid email returns Ok or
\* UserAlreadyExists and after it exactly one registration of that email
\* exists, so of the calls racing for an email one succeeds and the others
\* fail with UserAlreadyExists; the email index and the users map are in
\* bijection.
C39_EmailUnique ==
    /\ \A e \in EmailInputs : Cardinality(Registrations(e)) <= 1
    /\ \A t \in Threads :
          (job[t].op = "register" /\ ~InCall(t) /\ validate_email(job[t].email)) =>
              /\ job[t].r \in {"Ok", "UserAlreadyExists"}
              /\ Cardinality(Registrations(job[t].email)) = 1
              /\ \A x \in job[t].rivals :
                    (job[x].op = "register" /\ ~InCall(x) /\ job[x].email = job[t].email)
                        => ~(job[x].r = "Ok" /\ job[t].r = "Ok")
    /\ \A e \in DOMAIN email_index :
          /\ email_index[e] \in DOMAIN users
          /\ users[email_index[e]].email = e
    /\ \A id \in DOMAIN users :
          /\ users[id].id = id
          /\ users[id].email \in DOMAIN email_index
          /\ email_index[users[id].email] = id

\* two register calls for the same email ran at the same time and have both
\* returned, one with Ok and the other with UserAlreadyExists
C39_Witness ==
    \E t \in Threads, x \in Threads :
        /\ job[t].op = "register" /\ job[x].op = "register"
        /\ ~InCall(t) /\ ~InCall(x)
        /\ job[t].email = job[x].email
        /\ x \in job[t].rivals
        /\ job[t].r = "UserAlreadyExists"
        /\ job[x].r = "Ok"

\* the instants stored for a key
Stored(l, key) == IF key \in DOMAIN l.requests THEN l.requests[key] ELSE <<>>

\* the accepted calls of a key that are not more than 60 seconds old at now
RecentlyAccepted(key, now) ==
    LET InWindow(t) == t >= now - RATE_WINDOW
    IN  SelectSeq(accepted[key], InWindow)

\* s is the end of the sequence q
IsSuffix(s, q) ==
    /\ Len(s) <= Len(q)
    /\ \A i \in 1..Len(s) : s[i] = q[Len(q) - Len(s) + i]

\* C40. A rejected check_rate_limit call records nothing: the instants
\* stored for a key are always the latest of its accepted calls, all those of
\* the last 60 seconds among them, and when a call for the key returns they
\* are exactly the key's accepted calls of the last 60 seconds; a rejected
\* call leaves a limiter on which the same call is rejected again with nothing
\* changed; so the key is rejected exactly while it has N accepted calls in
\* the last 60 seconds, and is accepted again once the oldest of N stored
\* instants is more than 60 seconds old.
C40_RejectedNotRecorded ==
    \A key \in LimiterKeys :
        LET o == check_rate_limit(limiter, key, clock)
            stored == Stored(limiter, key)
            recent == RecentlyAccepted(key, clock)
            N == limiter.requests_per_minute
        IN  /\ IsSuffix(stored, accepted[key])
            /\ IsSuffix(recent, stored)
            /\ Len(stored) <= N
            /\ o.r \in {"Ok", "RateLimitExceeded"}
            /\ o.r = "RateLimitExceeded" <=> Len(recent) >= N
            /\ o.r = "RateLimitExceeded" =>
                  /\ Stored(o.l, key) = recent
                  /\ check_rate_limit(o.l, key, clock) = o
            /\ o.r = "Ok" => Stored(o.l, key) = Append(recent, clock)
            /\ (stored # <<>> /\ Head(stored) < clock - RATE_WINDOW) => o.r = "Ok"
            /\ (Len(stored) = N /\ Head(stored) >= clock - RATE_WINDOW)
                  => o.r = "RateLimitExceeded"

\* a key whose N stored instants made it rejected 60 seconds after the oldest
\* of them is accepted now, more than 60 seconds after it
C40_Witness ==
    \E key \in LimiterKeys :
        LET stored == Stored(limiter, key)
            N == limiter.requests_per_minute
        IN  /\ N >= 2
            /\ Len(stored) = N
            /\ Head(stored) = clock - RATE_WINDOW - ClockStep
            /\ stored[2] >= clock - RATE_WINDOW
            /\ check_rate_limit(limiter, key, clock - ClockStep).r = "RateLimitExceeded"
            /\ check_rate_limit(limiter, key, clock).r = "Ok"

====
